---- MODULE Spec2Model ----
(***************************************************************************)
(* Model of the Baidu Baike scrapers (src/baidu_scraper.py, the requests   *)
(* based BaiduBaikeScraper, and src/selenium_baidu_scraper.py, the         *)
(* BaiduBaikeSeleniumScraper).                                             *)
(*                                                                         *)
(* Text is a sequence of one-character strings.  An HTML fragment is the   *)
(* sequence of its text leaves in document order; each leaf records        *)
(* whether it lies inside a <sup> element (a citation marker).             *)
(***************************************************************************)
EXTENDS Integers, Sequences, FiniteSets, TLC

VARIABLES
    impl,            \* which class runs: "requests" or "selenium"
    hashSeed,        \* the process's string-hash seed (orders set iteration)
    fragment,        \* the HTML fragment handed to the Normalizer
    pc,              \* position inside format_text_with_citations
    clean,           \* return value of clean_text_without_citations
    cleanSrc,        \* per character of clean: TRUE iff it came from a <sup> leaf
    extracted,       \* soup.div.get_text(strip=True), as first extracted
    clean_text,      \* the working text of format_text_with_citations
    citation_groups, \* the clusters built by the grouping loop
    gi,              \* how many clusters of reversed(citation_groups) are done
    result_text,     \* the text being rewritten cluster by cluster
    annotated,       \* return value of format_text_with_citations
    document,        \* the parsed page handed to extract_content
    ci,              \* how many children of the content container are done
    content,         \* extract_content's list "content" (the clean variant)
    content_with_citations, \* extract_content's list "content_with_citations"
    cpc,             \* position inside extract_content
    prior,           \* the clean text of a first Normalizer call that is fed back
    table_node,      \* the table node handed to extract_table
    table_result,    \* extract_table's dict "table_data"
    table_max_cols,  \* extract_table's local "max_cols"
    row_idx,         \* how many rows of the table the row loop has passed
    tpc,             \* position inside extract_table
    data,            \* the dict "data" handed to generate_markdown_content
    md_content,      \* generate_markdown_content's string "md_content"
    md_content_with_citations, \* its string "md_content_with_citations"
    item_idx,        \* how many items the current content loop has rendered
    mpc,             \* position inside generate_markdown_content
    urls,            \* the list of URLs handed to the batch loop
    url_idx,         \* how many URLs the batch loop has finished
    results,         \* scrape_multiple_pages's list "results"
    batch_log,       \* what the batch loop did, in order
    attempt,         \* "attempt" of the retry loop of the page call in progress
    driver,          \* scrape_page's local "driver" (0 stands for None)
    created,         \* how many drivers the scrape_page call has created
    live,            \* the drivers whose browser is running
    page_log,        \* what the page call in progress did, in order
    ret,             \* what the page call returned or raised
    rpc              \* position inside the batch loop and the page call

\* the state of one Normalizer call
normVars == <<fragment, pc, clean, cleanSrc, extracted, clean_text,
              citation_groups, gi, result_text, annotated>>

\* the state of one extract_content call
contentVars == <<document, ci, content, content_with_citations, cpc>>

\* the state of one extract_table call
tableVars == <<table_node, table_result, table_max_cols, row_idx, tpc>>

\* the state of one generate_markdown_content call
markdownVars == <<data, md_content, md_content_with_citations, item_idx, mpc>>

\* the state of one run of the batch loop
runVars == <<urls, url_idx, results, batch_log, attempt, driver, created,
             live, page_log, ret, rpc>>

vars == <<impl, hashSeed, normVars, contentVars, prior, tableVars, markdownVars,
          runVars>>

\* what a step of the Normalizer leaves alone
OutsideNormalizer == <<contentVars, prior, tableVars, markdownVars, runVars>>

\* what a step of extract_content leaves alone
OutsideContent == <<normVars, prior, tableVars, markdownVars, runVars>>

\* what a step of extract_table leaves alone
OutsideTable == <<normVars, contentVars, prior, markdownVars, runVars>>

\* what a step of generate_markdown_content leaves alone
OutsideMarkdown == <<normVars, contentVars, prior, tableVars, runVars>>

\* no extract_table call is in progress
TableIdle ==
    /\ table_node = <<>>
    /\ table_result = [headers |-> <<>>, rows |-> <<>>]
    /\ table_max_cols = 0
    /\ row_idx = 0
    /\ tpc = "idle"

\* no batch loop is running
RunIdle ==
    /\ urls = <<>>
    /\ url_idx = 0
    /\ results = <<>>
    /\ batch_log = <<>>
    /\ attempt = 0
    /\ driver = 0
    /\ created = 0
    /\ live = {}
    /\ page_log = <<>>
    /\ ret = "none"
    /\ rpc = "idle"

\* no generate_markdown_content call is in progress
MarkdownIdle ==
    /\ data = <<>>
    /\ md_content = <<>>
    /\ md_content_with_citations = <<>>
    /\ item_idx = 0
    /\ mpc = "idle"

(***************************************************************************)
(* Bounds of the model.                                                    *)
(***************************************************************************)
MaxNodes == 3

MaxChildren == 3

(***************************************************************************)
(* Characters and Python string primitives.                                *)
(***************************************************************************)
Digits == {"0", "1", "2", "3", "4", "5", "6", "7", "8", "9"}

Whitespace == {" ", "\n"}

DigitVal(c) ==
    CASE c = "0" -> 0 [] c = "1" -> 1 [] c = "2" -> 2 [] c = "3" -> 3
      [] c = "4" -> 4 [] c = "5" -> 5 [] c = "6" -> 6 [] c = "7" -> 7
      [] c = "8" -> 8 [] c = "9" -> 9

DigitChar(n) == CHOOSE c \in Digits : DigitVal(c) = n

SetMin(S) == CHOOSE x \in S : \A y \in S : x <= y

SetMax(S) == CHOOSE x \in S : \A y \in S : y <= x

\* int(s) for a non-empty string of digits
RECURSIVE int(_)
int(s) ==
    IF Len(s) = 0 THEN 0
    ELSE 10 * int(SubSeq(s, 1, Len(s) - 1)) + DigitVal(s[Len(s)])

\* str(n) for n >= 0
RECURSIVE str(_)
str(n) ==
    IF n < 10 THEN <<DigitChar(n)>>
    ELSE str(n \div 10) \o <<DigitChar(n % 10)>>

\* s.strip()
strip(s) ==
    LET keep == {i \in 1..Len(s) : s[i] \notin Whitespace}
    IN  IF keep = {} THEN <<>> ELSE SubSeq(s, SetMin(keep), SetMax(keep))

\* s.split(sep) for a one-character separator
RECURSIVE split(_, _)
split(s, sep) ==
    LET at == {i \in 1..Len(s) : s[i] = sep}
    IN  IF at = {} THEN <<s>>
        ELSE <<SubSeq(s, 1, SetMin(at) - 1)>>
                 \o split(SubSeq(s, SetMin(at) + 1, Len(s)), sep)

\* ', '.join(parts)
RECURSIVE join(_)
join(parts) ==
    IF Len(parts) = 0 THEN <<>>
    ELSE IF Len(parts) = 1 THEN parts[1]
    ELSE parts[1] \o <<",", " ">> \o join(Tail(parts))

\* s[a:b] with 0 <= a, 0 <= b: Python clamps both offsets to len(s)
slice(s, a, b) ==
    LET lo == IF a > Len(s) THEN Len(s) ELSE a
        hi == IF b > Len(s) THEN Len(s) ELSE b
    IN  IF hi <= lo THEN <<>> ELSE SubSeq(s, lo + 1, hi)

\* the index just past the longest run of characters of cls that starts at i
RECURSIVE RunEnd(_, _, _)
RunEnd(s, i, cls) ==
    IF i <= Len(s) /\ s[i] \in cls THEN RunEnd(s, i + 1, cls) ELSE i

(***************************************************************************)
(* BeautifulSoup: find_all('sup'), decompose(), get_text(strip=True).      *)
(***************************************************************************)
\* (a variant that takes every leaf for a marker)
find_all_sup_any(nodes) == 1..Len(nodes)

find_all_sup(nodes) == {i \in 1..Len(nodes) : nodes[i].sup}

\* the mutant of decompose: the <sup> elements stay in the tree
decompose_none(nodes) == nodes

\* for sup in soup.find_all('sup'): sup.decompose()
decompose(nodes) == SelectSeq(nodes, LAMBDA n : ~n.sup)

\* get_text(strip=True): every text leaf is stripped, empty ones are
\* dropped, the rest are joined with no separator.
RECURSIVE get_text(_)
get_text(nodes) ==
    IF Len(nodes) = 0 THEN <<>>
    ELSE strip(nodes[1].text) \o get_text(Tail(nodes))

\* the origin of every character of get_text(nodes): TRUE iff from a <sup>
RECURSIVE get_text_src(_)
get_text_src(nodes) ==
    IF Len(nodes) = 0 THEN <<>>
    ELSE [i \in 1..Len(strip(nodes[1].text)) |-> nodes[1].sup]
             \o get_text_src(Tail(nodes))

\* the elements of s at the positions where mask is FALSE
RECURSIVE Unmasked(_, _)
Unmasked(s, mask) ==
    IF Len(s) = 0 THEN <<>>
    ELSE (IF mask[1] THEN <<>> ELSE <<s[1]>>) \o Unmasked(Tail(s), Tail(mask))

(***************************************************************************)
(* clean_text_without_citations                                            *)
(***************************************************************************)
\* re.sub(r'\[\d+\]', '', text), as the mask of the deleted characters of
\* s from index i on
RECURSIVE bracket_number_mask(_, _)
bracket_number_mask(s, i) ==
    IF i > Len(s) THEN <<>>
    ELSE LET d == RunEnd(s, i + 1, Digits)
         IN  IF s[i] = "[" /\ d > i + 1 /\ d <= Len(s) /\ s[d] = "]"
             THEN [k \in 1..(d - i + 1) |-> TRUE] \o bracket_number_mask(s, d + 1)
             ELSE <<FALSE>> \o bracket_number_mask(s, i + 1)

\* The text returned and, as a ghost, the origin of each of its characters.
clean_text_without_citations(html, class) ==
    IF Len(html) = 0 THEN [text |-> <<>>, src |-> <<>>]
    ELSE LET soup == decompose(html)
             text == get_text(soup)
             src  == get_text_src(soup)
         IN  IF class = "requests"
             THEN [text |-> text, src |-> src]
             ELSE LET mask == bracket_number_mask(text, 1)
                      t2   == Unmasked(text, mask)
                      s2   == Unmasked(src, mask)
                      keep == {i \in 1..Len(t2) : t2[i] \notin Whitespace}
                  IN  IF keep = {} THEN [text |-> <<>>, src |-> <<>>]
                      ELSE [text |-> SubSeq(t2, SetMin(keep), SetMax(keep)),
                            src  |-> SubSeq(s2, SetMin(keep), SetMax(keep))]

(***************************************************************************)
(* format_text_with_citations: the regular-expression passes.              *)
(***************************************************************************)
\* r'\[(\d+)\]\s+\[\1\]' at index i of s: the index just past the match,
\* or 0 when the pattern does not match there.
MatchDuplicate(s, i) ==
    IF ~(i <= Len(s) /\ s[i] = "[") THEN 0
    ELSE LET d == RunEnd(s, i + 1, Digits)
         IN  IF d = i + 1 \/ d > Len(s) \/ s[d] # "]" THEN 0
             ELSE LET w == RunEnd(s, d + 1, Whitespace)
                      n == d - (i + 1)
                      e == w + 1 + n
                  IN  IF w = d + 1 \/ w > Len(s) \/ s[w] # "[" THEN 0
                      ELSE IF e > Len(s) THEN 0
                      ELSE IF SubSeq(s, w + 1, w + n) # SubSeq(s, i + 1, d - 1) THEN 0
                      ELSE IF s[e] # "]" THEN 0
                      ELSE e + 1

\* re.sub(r'\[(\d+)\]\s+\[\1\]', r'[\1]', s) from index i on: one pass,
\* leftmost non-overlapping matches.
RECURSIVE collapse_duplicates(_, _)
collapse_duplicates(s, i) ==
    IF i > Len(s) THEN <<>>
    ELSE LET e == MatchDuplicate(s, i)
         IN  IF e # 0
             THEN SubSeq(s, i, RunEnd(s, i + 1, Digits)) \o collapse_duplicates(s, e)
             ELSE <<s[i]>> \o collapse_duplicates(s, i + 1)

\* the mutant of replace_range_citations: range(start, end), end excluded
replace_range_citations_excl(m) ==
    LET range_str == SubSeq(m, 2, Len(m) - 1)
        parts == split(range_str, "-")
    IN  IF "-" \in {range_str[k] : k \in 1..Len(range_str)}
        THEN IF Len(parts) # 2 \/ \E k \in 1..Len(parts) : Len(parts[k]) = 0
             THEN [raised |-> TRUE, text |-> <<>>]
             ELSE LET start == int(parts[1])
                      end   == int(parts[2])
                      numbers == [k \in 1..(IF end > start THEN end - start ELSE 0)
                                     |-> str(start + k - 1)]
                  IN  [raised |-> FALSE, text |-> <<"[">> \o join(numbers) \o <<"]">>]
        ELSE [raised |-> FALSE, text |-> m]

\* replace_range_citations(match), match.group(0) = m.  The unpacking
\* start, end = map(int, range_str.split('-')) raises ValueError unless the
\* split gives exactly two parts that are both non-empty digit strings.
replace_range_citations(m) ==
    LET range_str == SubSeq(m, 2, Len(m) - 1)
        parts == split(range_str, "-")
    IN  IF "-" \in {range_str[k] : k \in 1..Len(range_str)}
        THEN IF Len(parts) # 2 \/ \E k \in 1..Len(parts) : Len(parts[k]) = 0
             THEN [raised |-> TRUE, text |-> <<>>]
             ELSE LET start == int(parts[1])
                      end   == int(parts[2])
                      numbers == [k \in 1..(IF end >= start THEN end - start + 1 ELSE 0)
                                     |-> str(start + k - 1)]
                  IN  [raised |-> FALSE, text |-> <<"[">> \o join(numbers) \o <<"]">>]
        ELSE [raised |-> FALSE, text |-> m]

\* re.sub(r'\[([\d\-]+)\]', replace_range_citations, s) from index i on
RECURSIVE expand_ranges(_, _)
expand_ranges(s, i) ==
    IF i > Len(s) THEN [raised |-> FALSE, text |-> <<>>]
    ELSE LET d == RunEnd(s, i + 1, Digits \cup {"-"})
         IN  IF s[i] = "[" /\ d > i + 1 /\ d <= Len(s) /\ s[d] = "]"
             THEN LET r    == replace_range_citations(SubSeq(s, i, d))
                      rest == expand_ranges(s, d + 1)
                  IN  [raised |-> r.raised \/ rest.raised, text |-> r.text \o rest.text]
             ELSE LET rest == expand_ranges(s, i + 1)
                  IN  [raised |-> rest.raised, text |-> <<s[i]>> \o rest.text]

(***************************************************************************)
(* format_text_with_citations: locating and clustering the groups.         *)
(***************************************************************************)
\* the part (?:,\s*\d+)*\] of citation_pattern at index j: the index just
\* past the match, or 0
RECURSIVE MatchCitationTail(_, _)
MatchCitationTail(s, j) ==
    IF j > Len(s) THEN 0
    ELSE IF s[j] = "]" THEN j + 1
    ELSE IF s[j] = ","
         THEN LET w == RunEnd(s, j + 1, Whitespace)
                  d == RunEnd(s, w, Digits)
              IN  IF d = w THEN 0 ELSE MatchCitationTail(s, d)
    ELSE 0

\* citation_pattern = r'\[(\d+(?:,\s*\d+)*)\]' at index i
MatchCitation(s, i) ==
    IF ~(i <= Len(s) /\ s[i] = "[") THEN 0
    ELSE LET d == RunEnd(s, i + 1, Digits)
         IN  IF d = i + 1 THEN 0 ELSE MatchCitationTail(s, d)

\* re.finditer(citation_pattern, s) from index i on, as the dictionary
\* position_to_citation: (match.start(), match.end()) -> match.group(1),
\* with Python's 0-based offsets.
RECURSIVE position_to_citation(_, _)
position_to_citation(s, i) ==
    IF i > Len(s) THEN <<>>
    ELSE LET e == MatchCitation(s, i)
         IN  IF e # 0
             THEN <<[pos |-> <<i - 1, e - 1>>, citation |-> SubSeq(s, i + 1, e - 2)]>>
                      \o position_to_citation(s, e)
             ELSE position_to_citation(s, i + 1)

\* sorted(position_to_citation.keys()): tuples in ascending order
RECURSIVE sorted_positions(_)
sorted_positions(keys) ==
    IF keys = {} THEN <<>>
    ELSE LET first == CHOOSE p \in keys : \A q \in keys :
                          p[1] < q[1] \/ (p[1] = q[1] /\ p[2] <= q[2])
         IN  <<first>> \o sorted_positions(keys \ {first})

\* the mutant of close_enough: a gap of exactly 3 no longer merges
close_enough_strict(curr_start, prev_end) == curr_start - prev_end < 3

\* if curr_start - prev_end <= 3
close_enough(curr_start, prev_end) == curr_start - prev_end <= 3

\* The grouping loop over sorted_positions[k..]: acc is citation_groups so
\* far, cur the (current_group, current_positions) pair.  A cluster is the
\* sequence of its members, each a position with its citation string.
RECURSIVE group_loop(_, _, _, _, _)
group_loop(positions, dict, k, acc, cur) ==
    IF k > Len(positions)
    THEN IF Len(cur) > 0 THEN Append(acc, cur) ELSE acc
    ELSE LET pos == positions[k]
             entry == [pos |-> pos,
                       citation |-> (CHOOSE d \in dict : d.pos = pos).citation]
         IN  IF Len(cur) = 0
             THEN group_loop(positions, dict, k + 1, acc, <<entry>>)
             ELSE IF close_enough(pos[1], cur[Len(cur)].pos[2])
                  THEN group_loop(positions, dict, k + 1, acc, Append(cur, entry))
                  ELSE group_loop(positions, dict, k + 1, Append(acc, cur), <<entry>>)

\* citation_groups for the text s
build_citation_groups(s) ==
    LET found == position_to_citation(s, 1)
        dict  == {found[k] : k \in 1..Len(found)}
    IN  group_loop(sorted_positions({d.pos : d \in dict}), dict, 1, <<>>, <<>>)

(***************************************************************************)
(* format_text_with_citations: merging one cluster.                        *)
(***************************************************************************)
\* all_numbers: every citation of the group split at ',' and stripped
RECURSIVE all_numbers(_)
all_numbers(group) ==
    IF Len(group) = 0 THEN <<>>
    ELSE LET parts == split(group[1].citation, ",")
         IN  [k \in 1..Len(parts) |-> strip(parts[k])] \o all_numbers(Tail(group))

\* Iteration order of a set of strings.  It follows the strings' hashes,
\* which the interpreter seeds per process: two spellings of one integer
\* come out in either order, depending on the seed.
iterates_before(a, b, seed) ==
    IF seed = 0 THEN Len(a) < Len(b) ELSE Len(a) > Len(b)

\* sorted(S, key=int) for a set S of digit strings: ascending by integer
\* value; the sort is stable, so equal keys keep the set's iteration order.
RECURSIVE sorted_by_int(_, _)
sorted_by_int(S, seed) ==
    IF S = {} THEN <<>>
    ELSE LET first == CHOOSE a \in S : \A b \in S \ {a} :
                          \/ int(a) < int(b)
                          \/ (int(a) = int(b) /\ iterates_before(a, b, seed))
         IN  <<first>> \o sorted_by_int(S \ {first}, seed)

\* (a variant that keeps a number as often as it is cited)
combined_citation_all(group, seed) ==
    <<"[">> \o join(all_numbers(group)) \o <<"]">>

\* combined_citation = f"[{', '.join(sorted(set(all_numbers), key=int))}]"
combined_citation(group, seed) ==
    LET nums == all_numbers(group)
    IN  <<"[">> \o join(sorted_by_int({nums[k] : k \in 1..Len(nums)}, seed)) \o <<"]">>

\* the mutant of reversed: the clusters are taken front to back
reversed_not(seq) == seq

\* reversed(citation_groups)
reversed(seq) == [k \in 1..Len(seq) |-> seq[Len(seq) + 1 - k]]

\* One iteration of "for group, positions in reversed(citation_groups)":
\* the text after replacing the cluster, at the offsets recorded before any
\* replacement.
replace_group(text, group, seed) ==
    IF Len(group) > 1
    THEN LET start_pos == SetMin({group[k].pos[1] : k \in 1..Len(group)})
             end_pos   == SetMax({group[k].pos[2] : k \in 1..Len(group)})
         IN  slice(text, 0, start_pos) \o combined_citation(group, seed)
                 \o slice(text, end_pos, Len(text))
    ELSE text

(***************************************************************************)
(* The inputs: the text leaves a fragment is built from.                   *)
(***************************************************************************)
\* text of citation markers (<sup> leaves)
SupTexts ==
    { <<"[", "2", "]">>,
      <<"[", "0", "2", "]">>,
      <<"[", "2", "]", " ", " ", " ", " ", "[", "2", "]", " ", " ", " ", " ", "[", "2", "]">>,
      <<"[", "1", "-", "2", "]">>,
      <<"[", "2", "-", "2", "]">>,
      <<"[", "2", "-", "1", "]">>,
      <<"[", "2", "-", "]">> }

\* text outside markers
PlainTexts ==
    { <<" ", "a", "b", "c", " ">>,
      <<"[", "1", "2", "]">>,
      <<"[", "2", "]", "a", "b", "c", "d", "[", "1", "2", "]">> }

Leaves == [sup : {TRUE}, text : SupTexts] \cup [sup : {FALSE}, text : PlainTexts]

Fragments == UNION {[1..n -> Leaves] : n \in 0..MaxNodes}

Classes == {"requests", "selenium"}

Seeds == {0, 1}

(***************************************************************************)
(* The Normalizer, step by step.                                           *)
(***************************************************************************)
Init ==
    /\ impl \in Classes
    /\ hashSeed \in Seeds
    /\ fragment \in Fragments
    /\ pc = "clean"
    /\ clean = <<>>
    /\ cleanSrc = <<>>
    /\ extracted = <<>>
    /\ clean_text = <<>>
    /\ citation_groups = <<>>
    /\ gi = 0
    /\ result_text = <<>>
    /\ annotated = <<>>
    /\ document = [present |-> FALSE, children |-> <<>>]
    /\ ci = 0
    /\ content = <<>>
    /\ content_with_citations = <<>>
    /\ cpc = "idle"
    /\ prior = [ran |-> FALSE, clean |-> <<>>]
    /\ TableIdle
    /\ RunIdle
    /\ MarkdownIdle

\* text_without_citations = self.clean_text_without_citations(html)
CleanText ==
    /\ pc = "clean"
    /\ LET r == clean_text_without_citations(fragment, impl)
       IN  clean' = r.text /\ cleanSrc' = r.src
    /\ pc' = "begin"
    /\ UNCHANGED <<impl, hashSeed, fragment, extracted, clean_text,
                   citation_groups, gi, result_text, annotated>>
    /\ UNCHANGED OutsideNormalizer

\* format_text_with_citations up to "clean_text = soup.div.get_text(...)":
\* an empty input and a fragment without <sup> return at once.
FormatBegin ==
    /\ pc = "begin"
    /\ extracted' = get_text(fragment)
    /\ IF Len(fragment) = 0 \/ find_all_sup(fragment) = {}
       THEN /\ annotated' = get_text(fragment)
            /\ pc' = "done"
            /\ UNCHANGED clean_text
       ELSE /\ clean_text' = get_text(fragment)
            /\ pc' = "collapse"
            /\ UNCHANGED annotated
    /\ UNCHANGED <<impl, hashSeed, fragment, clean, cleanSrc, citation_groups,
                   gi, result_text>>
    /\ UNCHANGED OutsideNormalizer

\* clean_text = re.sub(r'\[(\d+)\]\s+\[\1\]', r'[\1]', clean_text)
CollapseDuplicates ==
    /\ pc = "collapse"
    /\ clean_text' = collapse_duplicates(clean_text, 1)
    /\ pc' = "ranges"
    /\ UNCHANGED <<impl, hashSeed, fragment, clean, cleanSrc, extracted,
                   citation_groups, gi, result_text, annotated>>
    /\ UNCHANGED OutsideNormalizer

\* clean_text = re.sub(r'\[([\d\-]+)\]', replace_range_citations, clean_text)
ExpandRanges ==
    /\ pc = "ranges"
    /\ LET r == expand_ranges(clean_text, 1)
       IN  IF r.raised
           THEN pc' = "raised" /\ UNCHANGED clean_text
           ELSE pc' = "scan" /\ clean_text' = r.text
    /\ UNCHANGED <<impl, hashSeed, fragment, clean, cleanSrc, extracted,
                   citation_groups, gi, result_text, annotated>>
    /\ UNCHANGED OutsideNormalizer

\* finditer, sorted_positions, the grouping loop, result_text = clean_text
ScanAndGroup ==
    /\ pc = "scan"
    /\ citation_groups' = build_citation_groups(clean_text)
    /\ result_text' = clean_text
    /\ gi' = 0
    /\ pc' = "replace"
    /\ UNCHANGED <<impl, hashSeed, fragment, clean, cleanSrc, extracted,
                   clean_text, annotated>>
    /\ UNCHANGED OutsideNormalizer

\* one iteration of: for group, positions in reversed(citation_groups)
ReplaceGroup ==
    /\ pc = "replace"
    /\ gi < Len(citation_groups)
    /\ result_text' = replace_group(result_text, reversed(citation_groups)[gi + 1],
                                    hashSeed)
    /\ gi' = gi + 1
    /\ UNCHANGED <<impl, hashSeed, fragment, pc, clean, cleanSrc, extracted,
                   clean_text, citation_groups, annotated>>
    /\ UNCHANGED OutsideNormalizer

\* return result_text.strip()
Return ==
    /\ pc = "replace"
    /\ gi = Len(citation_groups)
    /\ annotated' = strip(result_text)
    /\ pc' = "done"
    /\ UNCHANGED <<impl, hashSeed, fragment, clean, cleanSrc, extracted,
                   clean_text, citation_groups, gi, result_text>>
    /\ UNCHANGED OutsideNormalizer

Next ==
    \/ CleanText
    \/ FormatBegin
    \/ CollapseDuplicates
    \/ ExpandRanges
    \/ ScanAndGroup
    \/ ReplaceGroup
    \/ Return

Spec == Init /\ [][Next]_vars

(***************************************************************************)
(* format_text_with_citations as one call.                                 *)
(***************************************************************************)
\* for group, positions in reversed(citation_groups): ... from the k-th on
RECURSIVE replace_groups(_, _, _, _)
replace_groups(text, order, k, seed) ==
    IF k > Len(order) THEN text
    ELSE replace_groups(replace_group(text, order[k], seed), order, k + 1, seed)

\* The value returned, or raised = TRUE when replace_range_citations
\* raises ValueError.
format_text_with_citations(html, seed) ==
    IF Len(html) = 0 THEN [raised |-> FALSE, text |-> <<>>]
    ELSE IF find_all_sup(html) = {} THEN [raised |-> FALSE, text |-> get_text(html)]
    ELSE LET r == expand_ranges(collapse_duplicates(get_text(html), 1), 1)
         IN  IF r.raised THEN [raised |-> TRUE, text |-> <<>>]
             ELSE [raised |-> FALSE,
                   text |-> strip(replace_groups(r.text,
                                reversed(build_citation_groups(r.text)), 1, seed))]

(***************************************************************************)
(* extract_table (BaiduBaikeSeleniumScraper only).                         *)
(* A table element is the sequence of its <tr> rows, a row the sequence of *)
(* its cells; a cell records whether it is a <th>, its content as a        *)
(* fragment and the value of its colspan attribute (<<>> when it has       *)
(* none).                                                                  *)
(***************************************************************************)
\* lst.insert(idx, x)
list_insert(lst, idx, x) ==
    IF idx >= Len(lst) THEN Append(lst, x)
    ELSE SubSeq(lst, 1, idx) \o <<x>> \o SubSeq(lst, idx + 1, Len(lst))

\* list_insert, n times
RECURSIVE insert_times(_, _, _, _)
insert_times(lst, idx, x, n) ==
    IF n <= 0 THEN lst ELSE insert_times(list_insert(lst, idx, x), idx, x, n - 1)

\* row.find_all('td'), row.find_all('th')
find_all_td(row) == SelectSeq(row, LAMBDA c : ~c.th)

find_all_th(row) == SelectSeq(row, LAMBDA c : c.th)

\* [cell.get_text(strip=True) for cell in cells]
cell_texts(cells) == [k \in 1..Len(cells) |-> get_text(cells[k].html)]

\* "for i, cell in enumerate(cells)" from the i-th cell (0-based) on: a
\* colspan that int() rejects is skipped, one above 1 inserts colspan - 1
\* empty strings at index i + 1 of row_data.
RECURSIVE expand_colspans(_, _, _)
expand_colspans(row_data, cells, i) ==
    IF i >= Len(cells) THEN row_data
    ELSE LET colspan == cells[i + 1].colspan
             numeric == Len(colspan) > 0 /\ \A k \in 1..Len(colspan) : colspan[k] \in Digits
         IN  IF numeric /\ int(colspan) > 1
             THEN expand_colspans(insert_times(row_data, i + 1, <<>>, int(colspan) - 1),
                                  cells, i + 1)
             ELSE expand_colspans(row_data, cells, i + 1)

\* while len(row_data) < max_cols: row_data.append("")
pad_row(row_data, max_cols) ==
    row_data \o [k \in 1..(IF max_cols > Len(row_data) THEN max_cols - Len(row_data) ELSE 0)
                    |-> <<>>]

\* all th cells of the table, in document order
RECURSIVE table_find_all_th(_)
table_find_all_th(trs) ==
    IF Len(trs) = 0 THEN <<>> ELSE find_all_th(trs[1]) \o table_find_all_th(Tail(trs))

\* "for row in rows[start_idx:]" from the k-th row (1-based) on
RECURSIVE table_rows(_, _, _)
table_rows(trs, k, max_cols) ==
    IF k > Len(trs) THEN <<>>
    ELSE LET cells == find_all_td(trs[k])
         IN  (IF Len(cells) > 0
              THEN <<pad_row(expand_colspans(cell_texts(cells), cells, 0), max_cols)>>
              ELSE <<>>)
                 \o table_rows(trs, k + 1, max_cols)

\* lines 513-523: the texts of the th cells, else of the first row's cells
table_headers(trs) ==
    LET ths == table_find_all_th(trs)
    IN  IF Len(ths) > 0 THEN cell_texts(ths)
        ELSE IF Len(trs) > 0 THEN cell_texts(trs[1])
        ELSE <<>>

\* start_idx = 1 if table_data['headers'] and len(rows) > 0 else 0
table_start_idx(trs) == IF Len(table_headers(trs)) > 0 /\ Len(trs) > 0 THEN 1 ELSE 0

\* lines 532-535: the header count and the td count of every row
table_width(trs) ==
    SetMax({Len(table_headers(trs))} \cup {Len(find_all_td(trs[k])) : k \in 1..Len(trs)})

extract_table(table_element) ==
    LET trs == table_element
    IN  [headers |-> table_headers(trs),
         rows |-> table_rows(trs, table_start_idx(trs) + 1, table_width(trs))]

(***************************************************************************)
(* extract_content.                                                        *)
(* A child of the content container has its class list (each class name    *)
(* split into a known stem and the rest of the name), its data-module-type *)
(* attribute, its <hN> sub-elements, its own text, its HTML as a fragment, *)
(* its <li> items and, for a table module, its rows.                       *)
(***************************************************************************)
Class(stem, suffix) == [stem |-> stem, suffix |-> suffix]

\* name in element.get('class', [])
has_class(element, name) ==
    \E k \in 1..Len(element.class) : element.class[k] = Class(name, <<>>)

\* str(cell) parsed again as HTML: plain text is a single leaf outside markers
cell_html(cell) == IF Len(cell) = 0 THEN <<>> ELSE <<[sup |-> FALSE, text |-> cell]>>

\* the heading branch from the k-th class name on: every class that starts
\* with 'level-' and carries a number appends one block to both lists
RECURSIVE heading_blocks(_, _)
heading_blocks(element, k) ==
    IF k > Len(element.class) THEN <<>>
    ELSE LET class_name == element.class[k]
             d == RunEnd(class_name.suffix, 1, Digits)
         IN  (IF class_name.stem = "level-" /\ d > 1
              THEN LET level == int(SubSeq(class_name.suffix, 1, d - 1))
                       h_tags == SelectSeq(element.h, LAMBDA h : h.n = level + 1)
                       text == IF Len(h_tags) > 0 THEN strip(h_tags[1].text)
                               ELSE strip(element.text)
                   IN  <<[type |-> <<"h", level>>, text |-> text]>>
              ELSE <<>>)
                 \o heading_blocks(element, k + 1)

\* the mutant of list_items: the annotated item is not appended
RECURSIVE list_items_clean_only(_, _, _, _, _, _)
list_items_clean_only(items, k, type, class, seed, acc) ==
    IF k > Len(items) THEN acc
    ELSE list_items_clean_only(items, k + 1, type, class, seed,
             [acc EXCEPT !.clean = Append(@,
                  [type |-> type,
                   text |-> clean_text_without_citations(items[k], class).text])])

\* "for li in element.find_all('li')" from the k-th item on; acc holds the
\* two lists and whether the Normalizer has raised
RECURSIVE list_items(_, _, _, _, _, _)
list_items(items, k, type, class, seed, acc) ==
    IF k > Len(items) \/ acc.raised THEN acc
    ELSE LET c == clean_text_without_citations(items[k], class)
             f == format_text_with_citations(items[k], seed)
             a1 == [acc EXCEPT !.clean = Append(@, [type |-> type, text |-> c.text])]
         IN  IF f.raised THEN [a1 EXCEPT !.raised = TRUE]
             ELSE list_items(items, k + 1, type, class, seed,
                      [a1 EXCEPT !.with_citations =
                                     Append(@, [type |-> type, text |-> f.text])])

\* One iteration of the loop over the children: the two lists after it and
\* whether an exception left the loop.
extract_child(element, class, seed, lists) ==
    IF has_class(element, "paraTitle_WslP_")
    THEN [clean |-> lists.clean \o heading_blocks(element, 1),
          with_citations |-> lists.with_citations \o heading_blocks(element, 1),
          raised |-> FALSE]
    ELSE IF has_class(element, "content_pzMvr")
    THEN list_items(<<element.html>>, 1, <<"paragraph">>, class, seed, lists)
    ELSE IF has_class(element, "ordered_PAfTw")
    THEN list_items(element.li, 1, <<"ol">>, class, seed, lists)
    ELSE IF has_class(element, "unordered_ev4ae")
    THEN list_items(element.li, 1, <<"ul">>, class, seed, lists)
    ELSE IF class = "selenium" /\ element.module = "table"
    THEN LET table_data == extract_table(element.table)
             without == [headers |-> table_data.headers,
                         rows |-> [r \in 1..Len(table_data.rows) |->
                                      [c \in 1..Len(table_data.rows[r]) |->
                                          clean_text_without_citations(
                                              cell_html(table_data.rows[r][c]), class).text]]]
             with == [headers |-> table_data.headers,
                      rows |-> [r \in 1..Len(table_data.rows) |->
                                   [c \in 1..Len(table_data.rows[r]) |->
                                       format_text_with_citations(
                                           cell_html(table_data.rows[r][c]), seed).text]]]
         IN  [clean |-> Append(lists.clean, [type |-> <<"table">>, text |-> without]),
              with_citations |-> Append(lists.with_citations,
                                        [type |-> <<"table">>, text |-> with]),
              raised |-> FALSE]
    ELSE lists

(***************************************************************************)
(* The inputs of extract_content.                                          *)
(***************************************************************************)
\* a fragment the Normalizer accepts: text, then a duplicated marker
CitedHtml ==
    << [sup |-> FALSE, text |-> <<" ", "a", "b", "c", " ">>],
       [sup |-> TRUE, text |-> <<"[", "2", "]">>],
       [sup |-> TRUE, text |-> <<"[", "2", "]">>] >>

\* a fragment whose marker is a range with a missing bound
MalformedHtml == << [sup |-> TRUE, text |-> <<"[", "2", "-", "]">>] >>

\* a list item that starts with its numeral, and a marker
ItemHtml ==
    << [sup |-> FALSE, text |-> <<"1", ".", "a">>],
       [sup |-> TRUE, text |-> <<"[", "1", "-", "2", "]">>] >>

Cell(th, html, colspan) == [th |-> th, html |-> html, colspan |-> colspan]

\* the content of a cell that holds text only
Text(s) == <<[sup |-> FALSE, text |-> s]>>

\* a table module: a header row, then a row with a spanning cell
SampleTable ==
    << << Cell(TRUE, Text(<<"k">>), <<>>), Cell(TRUE, Text(<<"v">>), <<>>) >>,
       << Cell(FALSE, Text(<<"a">>), <<"2">>), Cell(FALSE, Text(<<"[", "2", "]">>), <<>>) >> >>

\* a table module whose data cell holds text and a range marker
CitedTable ==
    << << Cell(TRUE, Text(<<"k">>), <<>>) >>,
       << Cell(FALSE, << [sup |-> FALSE, text |-> <<"b">>],
                         [sup |-> TRUE, text |-> <<"[", "1", "-", "2", "]">>] >>, <<>>) >> >>

Element(class, module, h, text, html, li, table) ==
    [class |-> class, module |-> module, h |-> h, text |-> text,
     html |-> html, li |-> li, table |-> table]

Elements ==
    { \* a heading of level 1 with its <h2>
      Element(<<Class("paraTitle_WslP_", <<>>), Class("level-", <<"1">>)>>, "",
              <<[n |-> 2, text |-> <<"T">>]>>, <<"T", "x">>, <<>>, <<>>, <<>>),
      \* a heading with two level classes and no <hN>
      Element(<<Class("paraTitle_WslP_", <<>>), Class("level-", <<"1">>),
                Class("level-", <<"2">>)>>, "",
              <<>>, <<"T">>, <<>>, <<>>, <<>>),
      \* a heading whose level class carries no number
      Element(<<Class("paraTitle_WslP_", <<>>), Class("level-", <<"x">>)>>, "",
              <<>>, <<"T">>, <<>>, <<>>, <<>>),
      \* paragraphs
      Element(<<Class("content_pzMvr", <<>>)>>, "", <<>>, <<>>, CitedHtml, <<>>, <<>>),
      Element(<<Class("content_pzMvr", <<>>)>>, "", <<>>, <<>>, MalformedHtml, <<>>, <<>>),
      \* lists
      Element(<<Class("ordered_PAfTw", <<>>)>>, "", <<>>, <<>>, <<>>,
              <<ItemHtml, CitedHtml>>, <<>>),
      Element(<<Class("ordered_PAfTw", <<>>)>>, "", <<>>, <<>>, <<>>,
              <<ItemHtml, MalformedHtml, CitedHtml>>, <<>>),
      Element(<<Class("unordered_ev4ae", <<>>)>>, "", <<>>, <<>>, <<>>,
              <<CitedHtml>>, <<>>),
      \* table modules
      Element(<<>>, "table", <<>>, <<>>, <<>>, <<>>, SampleTable),
      Element(<<>>, "table", <<>>, <<>>, <<>>, <<>>, CitedTable),
      \* a child with none of the signatures
      Element(<<Class("other", <<>>)>>, "", <<>>, <<>>, <<>>, <<>>, <<>>) }

Documents ==
    {[present |-> FALSE, children |-> <<>>]}
        \cup {[present |-> TRUE, children |-> c] :
                 c \in UNION {[1..n -> Elements] : n \in 0..MaxChildren}}

(***************************************************************************)
(* extract_content, child by child.                                        *)
(***************************************************************************)
InitContent ==
    /\ impl \in Classes
    /\ hashSeed \in Seeds
    /\ document \in Documents
    /\ ci = 0
    /\ content = <<>>
    /\ content_with_citations = <<>>
    /\ cpc = "loop"
    /\ fragment = <<>>
    /\ pc = "idle"
    /\ clean = <<>>
    /\ cleanSrc = <<>>
    /\ extracted = <<>>
    /\ clean_text = <<>>
    /\ citation_groups = <<>>
    /\ gi = 0
    /\ result_text = <<>>
    /\ annotated = <<>>
    /\ prior = [ran |-> FALSE, clean |-> <<>>]
    /\ TableIdle
    /\ RunIdle
    /\ MarkdownIdle

\* one iteration of: for element in content_div.find_all([...], recursive=False)
ExtractChild ==
    /\ cpc = "loop"
    /\ document.present
    /\ ci < Len(document.children)
    /\ LET r == extract_child(document.children[ci + 1], impl, hashSeed,
                              [clean |-> content,
                               with_citations |-> content_with_citations,
                               raised |-> FALSE])
       IN  /\ content' = r.clean
           /\ content_with_citations' = r.with_citations
           /\ cpc' = IF r.raised THEN "raised" ELSE "loop"
    /\ ci' = ci + 1
    /\ UNCHANGED <<impl, hashSeed, document>>
    /\ UNCHANGED OutsideContent

\* return {'clean': content, 'with_citations': content_with_citations}
ReturnContent ==
    /\ cpc = "loop"
    /\ ~document.present \/ ci = Len(document.children)
    /\ cpc' = "returned"
    /\ UNCHANGED <<impl, hashSeed, document, ci, content, content_with_citations>>
    /\ UNCHANGED OutsideContent

NextContent ==
    \/ ExtractChild
    \/ ReturnContent

SpecContent == InitContent /\ [][NextContent]_vars

(***************************************************************************)
(* The Normalizer run again on its own clean output.                       *)
(***************************************************************************)
\* text outside markers with a bracketed number inside a bracket
NestedBracketText == <<"[", "[", "2", "]", "2", "]">>

IdempotenceLeaves ==
    { [sup |-> TRUE, text |-> <<"[", "2", "]">>],
      [sup |-> TRUE, text |-> <<"[", "1", "-", "2", "]">>],
      [sup |-> FALSE, text |-> <<" ", "a", "b", "c", " ">>],
      [sup |-> FALSE, text |-> <<"[", "1", "2", "]">>],
      [sup |-> FALSE, text |-> NestedBracketText],
      [sup |-> FALSE, text |-> <<"[", "2", "]", " ", "[", "2", "]">>],
      [sup |-> FALSE, text |-> <<"[", "2", "-", "]">>] }

InitIdempotence ==
    /\ impl \in Classes
    /\ hashSeed \in Seeds
    /\ fragment \in UNION {[1..n -> IdempotenceLeaves] : n \in 0..MaxNodes}
    /\ pc = "clean"
    /\ clean = <<>>
    /\ cleanSrc = <<>>
    /\ extracted = <<>>
    /\ clean_text = <<>>
    /\ citation_groups = <<>>
    /\ gi = 0
    /\ result_text = <<>>
    /\ annotated = <<>>
    /\ document = [present |-> FALSE, children |-> <<>>]
    /\ ci = 0
    /\ content = <<>>
    /\ content_with_citations = <<>>
    /\ cpc = "idle"
    /\ prior = [ran |-> FALSE, clean |-> <<>>]
    /\ TableIdle
    /\ RunIdle
    /\ MarkdownIdle

\* the clean text returned by the first call is handed to
\* clean_text_without_citations and format_text_with_citations as their
\* html argument: a string without markup parses to one text leaf
Rerun ==
    /\ pc = "done"
    /\ ~prior.ran
    /\ prior' = [ran |-> TRUE, clean |-> clean]
    /\ fragment' = cell_html(clean)
    /\ pc' = "clean"
    /\ clean' = <<>>
    /\ cleanSrc' = <<>>
    /\ extracted' = <<>>
    /\ clean_text' = <<>>
    /\ citation_groups' = <<>>
    /\ gi' = 0
    /\ result_text' = <<>>
    /\ annotated' = <<>>
    /\ UNCHANGED <<impl, hashSeed, contentVars, tableVars, markdownVars, runVars>>

NextIdempotence ==
    \/ Next
    \/ Rerun

SpecIdempotence == InitIdempotence /\ [][NextIdempotence]_vars

(***************************************************************************)
(* extract_table, row by row.                                              *)
(***************************************************************************)
MaxRows == 3

TableRows ==
    { \* a row of header cells
      << Cell(TRUE, Text(<<"k">>), <<>>), Cell(TRUE, Text(<<"v">>), <<>>) >>,
      \* a row whose two data cells both span two columns
      << Cell(FALSE, Text(<<"a">>), <<"2">>), Cell(FALSE, Text(<<"b">>), <<"2">>) >>,
      \* a row whose first data cell spans two columns
      << Cell(FALSE, Text(<<"a">>), <<"2">>), Cell(FALSE, Text(<<"b">>), <<>>) >>,
      \* a row of two plain data cells
      << Cell(FALSE, Text(<<"c">>), <<>>), Cell(FALSE, Text(<<"d">>), <<>>) >>,
      \* a row that starts with a header cell
      << Cell(TRUE, Text(<<"k">>), <<>>), Cell(FALSE, Text(<<"v">>), <<>>) >>,
      \* a row without cells
      << >>,
      \* a data cell whose colspan is not a number, and one spanning 1 column
      << Cell(FALSE, Text(<<"e">>), <<"x">>), Cell(FALSE, Text(<<"f">>), <<"1">>) >> }

Tables == UNION {[1..n -> TableRows] : n \in 0..MaxRows}

InitTable ==
    /\ impl = "selenium"
    /\ hashSeed \in Seeds
    /\ table_node \in Tables
    /\ table_result = [headers |-> <<>>, rows |-> <<>>]
    /\ table_max_cols = 0
    /\ row_idx = 0
    /\ tpc = "headers"
    /\ fragment = <<>>
    /\ pc = "idle"
    /\ clean = <<>>
    /\ cleanSrc = <<>>
    /\ extracted = <<>>
    /\ clean_text = <<>>
    /\ citation_groups = <<>>
    /\ gi = 0
    /\ result_text = <<>>
    /\ annotated = <<>>
    /\ document = [present |-> FALSE, children |-> <<>>]
    /\ ci = 0
    /\ content = <<>>
    /\ content_with_citations = <<>>
    /\ cpc = "idle"
    /\ prior = [ran |-> FALSE, clean |-> <<>>]
    /\ MarkdownIdle
    /\ RunIdle

\* lines 513-535: the headers, start_idx and max_cols
FindHeaders ==
    /\ tpc = "headers"
    /\ table_result' = [table_result EXCEPT !.headers = table_headers(table_node)]
    /\ row_idx' = table_start_idx(table_node)
    /\ table_max_cols' = table_width(table_node)
    /\ tpc' = "rows"
    /\ UNCHANGED <<impl, hashSeed, table_node>>
    /\ UNCHANGED OutsideTable

\* one iteration of: for row in rows[start_idx:]
ProcessRow ==
    /\ tpc = "rows"
    /\ row_idx < Len(table_node)
    /\ LET cells == find_all_td(table_node[row_idx + 1])
       IN  table_result' =
               IF Len(cells) > 0
               THEN [table_result EXCEPT !.rows =
                        Append(@, pad_row(expand_colspans(cell_texts(cells), cells, 0),
                                          table_max_cols))]
               ELSE table_result
    /\ row_idx' = row_idx + 1
    /\ UNCHANGED <<impl, hashSeed, table_node, table_max_cols, tpc>>
    /\ UNCHANGED OutsideTable

\* return table_data
ReturnTable ==
    /\ tpc = "rows"
    /\ row_idx >= Len(table_node)
    /\ tpc' = "returned"
    /\ UNCHANGED <<impl, hashSeed, table_node, table_result, table_max_cols, row_idx>>
    /\ UNCHANGED OutsideTable

NextTable ==
    \/ FindHeaders
    \/ ProcessRow
    \/ ReturnTable

SpecTable == InitTable /\ [][NextTable]_vars

(***************************************************************************)
(* generate_markdown_content.                                              *)
(* A Markdown string is the sequence of the pieces it was concatenated     *)
(* from: the characters of the Document's texts, one by one, and the       *)
(* literal parts of the format strings, each as one piece.                 *)
(***************************************************************************)
\* sep.join(parts)
RECURSIVE str_join(_, _)
str_join(sep, parts) ==
    IF Len(parts) = 0 THEN <<>>
    ELSE IF Len(parts) = 1 THEN parts[1]
    ELSE parts[1] \o <<sep>> \o str_join(sep, Tail(parts))

\* the mutant of truncate_row: a long row is kept whole
truncate_row_none(row, n) == row

\* row = row[:n]
truncate_row(row, n) == slice(row, 0, n)

\* "| " + " | ".join(row) + " |\n"
table_line(row) == <<"| ">> \o str_join(" | ", row) \o <<" |\n">>

\* "for row in rows" of render_table_markdown from the k-th row on: the
\* lines written, and the rows as the loop leaves them (row.append("")
\* changes the list the table holds, row[:n] makes a copy)
RECURSIVE render_rows(_, _, _)
render_rows(rows, k, n) ==
    IF k > Len(rows) THEN [md |-> <<>>, rows |-> rows]
    ELSE LET row  == pad_row(rows[k], n)
             rest == render_rows([rows EXCEPT ![k] = row], k + 1, n)
         IN  [md |-> table_line(truncate_row(row, n)) \o rest.md, rows |-> rest.rows]

\* render_table_markdown(table): the string returned and table['rows'] after
render_table_markdown(table) ==
    LET headers == table.headers
        rows    == table.rows
        body(n, first) ==
            LET r == render_rows(rows, 1, n)
            IN  [md |-> table_line(first) \o table_line([k \in 1..n |-> <<"---">>])
                            \o r.md \o <<"\n">>,
                 rows |-> r.rows]
    IN  IF Len(headers) > 0 THEN body(Len(headers), headers)
        ELSE IF Len(rows) > 0 /\ Len(rows[1]) > 0
        THEN body(Len(rows[1]), [k \in 1..Len(rows[1]) |-> <<>>])
        ELSE [md |-> <<"*Empty table*\n\n", "\n">>, rows |-> rows]

\* the mutant of match_numbering: a text without numeral matches as well
match_numbering_any(text) == [matched |-> TRUE, numbering |-> <<>>, rest |-> text]

\* re.match(r'^(\d+)\.(.*)', text): '.' does not match a line break
match_numbering(text) ==
    LET d == RunEnd(text, 1, Digits)
    IN  IF d > 1 /\ d <= Len(text) /\ text[d] = "."
        THEN LET breaks == {k \in (d + 1)..Len(text) : text[k] = "\n"}
                 e == IF breaks = {} THEN Len(text) ELSE SetMin(breaks) - 1
             IN  [matched |-> TRUE, numbering |-> SubSeq(text, 1, d - 1),
                  rest |-> SubSeq(text, d + 1, e)]
        ELSE [matched |-> FALSE, numbering |-> <<>>, rest |-> <<>>]

\* one iteration of a content loop: the string added and the item after it
render_item(item) ==
    IF item.type[1] = "h"
    THEN [md |-> [k \in 1..item.type[2] |-> "#"] \o <<" ">> \o item.text \o <<"\n\n">>,
          item |-> item]
    ELSE IF item.type[1] = "ol"
    THEN LET match == match_numbering(item.text)
         IN  [md |-> IF match.matched
                     THEN match.numbering \o <<". ">> \o match.rest \o <<"\n\n">>
                     ELSE <<>>,
              item |-> item]
    ELSE IF item.type[1] = "ul"
    THEN [md |-> <<"- ">> \o item.text \o <<"\n\n">>, item |-> item]
    ELSE IF item.type[1] = "table"
    THEN IF Len(item.text.headers) > 0 \/ Len(item.text.rows) > 0
         THEN LET r == render_table_markdown(item.text)
              IN  [md |-> <<"**Table:**\n\n">> \o r.md,
                   item |-> [item EXCEPT !.text.rows = r.rows]]
         ELSE [md |-> <<"*Empty table*\n\n">>, item |-> item]
    ELSE [md |-> item.text \o <<"\n\n">>, item |-> item]

\* the lines of the info box and of the table of contents
RECURSIVE info_lines(_)
info_lines(items) ==
    IF Len(items) = 0 THEN <<>>
    ELSE <<"**">> \o items[1].key \o <<"**: ">> \o items[1].value \o <<"\n">>
             \o info_lines(Tail(items))

RECURSIVE toc_lines(_)
toc_lines(toc) ==
    IF Len(toc) = 0 THEN <<>>
    ELSE [k \in 1..(IF toc[1].level > 1 THEN toc[1].level - 1 ELSE 0) |-> "  "]
             \o <<"- ">> \o toc[1].text \o <<"\n">> \o toc_lines(Tail(toc))

\* lines 845-885 for one of the two strings
render_front(d, variant) ==
    <<"# ">> \o d.title \o <<"\n\n">>
        \o (IF Len(d.short_description) > 0 THEN d.short_description \o <<"\n\n">>
            ELSE <<>>)
        \o (IF Len(d.abstract.clean) > 0
            THEN <<"## Abstract\n\n">> \o d.abstract[variant] \o <<"\n\n">>
            ELSE <<>>)
        \o (IF Len(d.info_box.clean) > 0
            THEN <<"## Information\n\n">> \o info_lines(d.info_box[variant]) \o <<"\n">>
            ELSE <<>>)
        \o (IF Len(d.toc) > 0
            THEN <<"## Table of Contents\n\n">> \o toc_lines(d.toc) \o <<"\n">>
            ELSE <<>>)

\* the lines of the references; the piece " (ref_date: " stands for the
\* Chinese label of the date, which only the Selenium class writes
RECURSIVE reference_lines(_, _)
reference_lines(refs, class) ==
    IF Len(refs) = 0 THEN <<>>
    ELSE LET ref == refs[1]
             ref_date_string == IF class = "selenium" /\ "ref_date" \in DOMAIN ref
                                       /\ Len(ref.ref_date) > 0
                                THEN <<" (ref_date: ">> \o ref.ref_date \o <<")">>
                                ELSE <<>>
         IN  (IF Len(ref.url) > 0
              THEN ref.id \o <<". [">> \o ref.title \o <<"](">> \o ref.url \o <<")">>
                       \o ref_date_string \o <<"\n">>
              ELSE IF class = "selenium"
              THEN ref.id \o <<". ">> \o ref.title \o <<" ">> \o ref_date_string \o <<"\n">>
              ELSE ref.id \o <<". ">> \o ref.title \o <<"\n">>)
                 \o reference_lines(Tail(refs), class)

(***************************************************************************)
(* The Document that scrape_page assembles and hands to                    *)
(* generate_markdown_content.                                              *)
(***************************************************************************)
MaxBlocks == 2

\* "for element in content_div.find_all(...)" from the k-th child on
RECURSIVE extract_children(_, _, _, _, _)
extract_children(children, k, class, seed, lists) ==
    IF k > Len(children) \/ lists.raised THEN lists
    ELSE extract_children(children, k + 1, class, seed,
                          extract_child(children[k], class, seed, lists))

\* extract_content as one call, for a page on which no child raises
extract_content(soup, class, seed) ==
    LET r == extract_children(soup.children, 1, class, seed,
                              [clean |-> <<>>, with_citations |-> <<>>, raised |-> FALSE])
    IN  IF soup.present THEN [clean |-> r.clean, with_citations |-> r.with_citations]
        ELSE [clean |-> <<>>, with_citations |-> <<>>]

\* a list item whose text runs over two lines
TwoLineItemHtml == << [sup |-> FALSE, text |-> <<"2", ".", "b", "\n", "c">>] >>

\* a table without header cells whose first row has no cells, whose second
\* row has a spanning cell and whose third row is a single cell
RaggedTable ==
    << << >>,
       << Cell(FALSE, Text(<<"a">>), <<"2">>) >>,
       << Cell(FALSE, Text(<<"b">>), <<>>) >> >>

\* the children of the content container of the pages that are rendered
RenderedElements ==
    { Element(<<Class("paraTitle_WslP_", <<>>), Class("level-", <<"1">>)>>, "",
              <<[n |-> 2, text |-> <<"T">>]>>, <<"T", "x">>, <<>>, <<>>, <<>>),
      Element(<<Class("content_pzMvr", <<>>)>>, "", <<>>, <<>>, CitedHtml, <<>>, <<>>),
      Element(<<Class("ordered_PAfTw", <<>>)>>, "", <<>>, <<>>, <<>>,
              <<ItemHtml, CitedHtml, TwoLineItemHtml>>, <<>>),
      Element(<<Class("unordered_ev4ae", <<>>)>>, "", <<>>, <<>>, <<>>,
              <<CitedHtml>>, <<>>),
      Element(<<>>, "table", <<>>, <<>>, <<>>, <<>>, SampleTable),
      Element(<<>>, "table", <<>>, <<>>, <<>>, <<>>, CitedTable),
      Element(<<>>, "table", <<>>, <<>>, <<>>, <<>>, RaggedTable),
      Element(<<>>, "table", <<>>, <<>>, <<>>, <<>>, <<>>) }

\* what the page holds besides its content container: the title, the short
\* description, the abstract's HTML, the info box items, the table of
\* contents and the references
Surroundings ==
    { \* a page with none of them
      [title |-> <<>>, short_description |-> <<>>, abstract |-> <<>>,
       info_box |-> <<>>, toc |-> <<>>, references |-> <<>>],
      \* a page with all of them
      [title |-> <<"T">>, short_description |-> <<"d">>, abstract |-> CitedHtml,
       info_box |-> <<[name |-> <<"k">>, value |-> CitedHtml]>>,
       toc |-> <<[level |-> 2, text |-> <<"s">>]>>,
       references |-> <<[id |-> <<"1">>, title |-> <<"r">>, url |-> <<"u">>,
                         ref_date |-> <<"9">>]>>],
      \* a page whose abstract is a marker only and whose reference has no link
      [title |-> <<"T">>, short_description |-> <<>>,
       abstract |-> <<[sup |-> TRUE, text |-> <<"[", "2", "]">>]>>,
       info_box |-> <<>>, toc |-> <<>>,
       references |-> <<[id |-> <<"1">>, title |-> <<"r">>, url |-> <<>>,
                         ref_date |-> <<>>]>>] }

\* data = {'title': ..., 'references': references}
assemble(page, soup, class, seed) ==
    [title |-> page.title,
     short_description |-> page.short_description,
     abstract |-> [clean |-> clean_text_without_citations(page.abstract, class).text,
                   with_citations |-> format_text_with_citations(page.abstract, seed).text],
     info_box |->
         [clean |-> [k \in 1..Len(page.info_box) |->
                        [key |-> page.info_box[k].name,
                         value |-> clean_text_without_citations(
                                       page.info_box[k].value, class).text]],
          with_citations |-> [k \in 1..Len(page.info_box) |->
                        [key |-> page.info_box[k].name,
                         value |-> format_text_with_citations(
                                       page.info_box[k].value, seed).text]]],
     toc |-> page.toc,
     content |-> extract_content(soup, class, seed),
     references |-> page.references]

(***************************************************************************)
(* generate_markdown_content, step by step.                                *)
(***************************************************************************)
InitMarkdown ==
    /\ impl \in Classes
    /\ hashSeed \in Seeds
    /\ \E page \in Surroundings :
           \E children \in UNION {[1..n -> RenderedElements] : n \in 0..MaxBlocks} :
               data = assemble(page, [present |-> TRUE, children |-> children],
                               impl, hashSeed)
    /\ md_content = <<>>
    /\ md_content_with_citations = <<>>
    /\ item_idx = 0
    /\ mpc = "front"
    /\ fragment = <<>>
    /\ pc = "idle"
    /\ clean = <<>>
    /\ cleanSrc = <<>>
    /\ extracted = <<>>
    /\ clean_text = <<>>
    /\ citation_groups = <<>>
    /\ gi = 0
    /\ result_text = <<>>
    /\ annotated = <<>>
    /\ document = [present |-> FALSE, children |-> <<>>]
    /\ ci = 0
    /\ content = <<>>
    /\ content_with_citations = <<>>
    /\ cpc = "idle"
    /\ prior = [ran |-> FALSE, clean |-> <<>>]
    /\ TableIdle
    /\ RunIdle

\* the title, the short description, the abstract, the info box and the
\* table of contents, for both strings
RenderFront ==
    /\ mpc = "front"
    /\ md_content' = render_front(data, "clean")
    /\ md_content_with_citations' = render_front(data, "with_citations")
    /\ mpc' = "content"
    /\ UNCHANGED <<impl, hashSeed, data, item_idx>>
    /\ UNCHANGED OutsideMarkdown

\* if data['content']['clean']: md_content += "## Content\n\n"
BeginContent ==
    /\ mpc = "content"
    /\ IF Len(data.content.clean) > 0
       THEN /\ md_content' = md_content \o <<"## Content\n\n">>
            /\ mpc' = "clean"
       ELSE /\ mpc' = "references"
            /\ UNCHANGED md_content
    /\ item_idx' = 0
    /\ UNCHANGED <<impl, hashSeed, data, md_content_with_citations>>
    /\ UNCHANGED OutsideMarkdown

\* one iteration of: for item in data['content']['clean']
RenderCleanItem ==
    /\ mpc = "clean"
    /\ item_idx < Len(data.content.clean)
    /\ LET r == render_item(data.content.clean[item_idx + 1])
       IN  /\ md_content' = md_content \o r.md
           /\ data' = [data EXCEPT !.content.clean[item_idx + 1] = r.item]
    /\ item_idx' = item_idx + 1
    /\ UNCHANGED <<impl, hashSeed, md_content_with_citations, mpc>>
    /\ UNCHANGED OutsideMarkdown

\* md_content_with_citations += "## Content\n\n"
BeginAnnotated ==
    /\ mpc = "clean"
    /\ item_idx = Len(data.content.clean)
    /\ md_content_with_citations' = md_content_with_citations \o <<"## Content\n\n">>
    /\ mpc' = "annotated"
    /\ item_idx' = 0
    /\ UNCHANGED <<impl, hashSeed, data, md_content>>
    /\ UNCHANGED OutsideMarkdown

\* one iteration of: for item in data['content']['with_citations']
RenderAnnotatedItem ==
    /\ mpc = "annotated"
    /\ item_idx < Len(data.content.with_citations)
    /\ LET r == render_item(data.content.with_citations[item_idx + 1])
       IN  /\ md_content_with_citations' = md_content_with_citations \o r.md
           /\ data' = [data EXCEPT !.content.with_citations[item_idx + 1] = r.item]
    /\ item_idx' = item_idx + 1
    /\ UNCHANGED <<impl, hashSeed, md_content, mpc>>
    /\ UNCHANGED OutsideMarkdown

\* the references, for both strings, and the return
RenderReferences ==
    /\ \/ mpc = "references"
       \/ mpc = "annotated" /\ item_idx = Len(data.content.with_citations)
    /\ LET md == IF Len(data.references) > 0
                 THEN <<"## References\n\n">> \o reference_lines(data.references, impl)
                 ELSE <<>>
       IN  /\ md_content' = md_content \o md
           /\ md_content_with_citations' = md_content_with_citations \o md
    /\ mpc' = "returned"
    /\ UNCHANGED <<impl, hashSeed, data, item_idx>>
    /\ UNCHANGED OutsideMarkdown

NextMarkdown ==
    \/ RenderFront
    \/ BeginContent
    \/ RenderCleanItem
    \/ BeginAnnotated
    \/ RenderAnnotatedItem
    \/ RenderReferences

SpecMarkdown == InitMarkdown /\ [][NextMarkdown]_vars

(***************************************************************************)
(* The extractors of the page's other anchors: title, short description,   *)
(* abstract, info panel, table of contents and reference section.  A page  *)
(* is a record with one field per anchor; an anchor that the page lacks    *)
(* is Absent, one that it has carries what the extractor reads from it.    *)
(***************************************************************************)
\* soup.find(...) found nothing
Absent == [present |-> FALSE]

\* an element found, with its content as a fragment
Node(html) == [present |-> TRUE, html |-> html]

\* (a variant that falls back to the short description)
extract_title_or_description(soup) ==
    IF soup.title.present THEN get_text(soup.title.html)
    ELSE IF soup.short_description.present
    THEN get_text(soup.short_description.html)
    ELSE <<>>

extract_title(soup) ==
    IF soup.title.present THEN get_text(soup.title.html) ELSE <<>>

extract_short_description(soup) ==
    IF soup.short_description.present
    THEN get_text(soup.short_description.html)
    ELSE <<>>

extract_abstract(soup, class, seed) ==
    IF ~soup.abstract.present
    THEN [raised |-> FALSE, clean |-> <<>>, with_citations |-> <<>>]
    ELSE LET with == format_text_with_citations(soup.abstract.html, seed)
         IN  [raised |-> with.raised,
              clean |-> clean_text_without_citations(soup.abstract.html, class).text,
              with_citations |-> with.text]

\* info_box[name_text] = value: a dict keeps the place of a key it has
dict_set(dict, key, value) ==
    IF \E k \in 1..Len(dict) : dict[k].key = key
    THEN [k \in 1..Len(dict) |->
             IF dict[k].key = key THEN [key |-> key, value |-> value] ELSE dict[k]]
    ELSE Append(dict, [key |-> key, value |-> value])

RECURSIVE info_items(_, _, _, _)
info_items(items, class, seed, acc) ==
    IF Len(items) = 0 \/ acc.raised THEN acc
    ELSE LET item == items[1]
             with == format_text_with_citations(item.value.html, seed)
         IN  info_items(Tail(items), class, seed,
                 IF ~(item.name.present /\ item.value.present) THEN acc
                 ELSE IF with.raised
                 THEN [acc EXCEPT !.raised = TRUE]
                 ELSE [raised |-> FALSE,
                       clean |-> dict_set(acc.clean, get_text(item.name.html),
                                     clean_text_without_citations(item.value.html,
                                                                  class).text),
                       with_citations |-> dict_set(acc.with_citations,
                                              get_text(item.name.html), with.text)])

extract_info_box(soup, class, seed) ==
    info_items(IF soup.info_box.present THEN soup.info_box.items ELSE <<>>,
               class, seed,
               [raised |-> FALSE, clean |-> <<>>, with_citations |-> <<>>])

\* one entry of the table of contents from its <li>: the level is the
\* number in the first class "level<n>" (0 without one), the bullet sign
\* (the piece "bullet") is removed, and the Selenium class also removes
\* the numbering in front of a level-1 entry
toc_entry(li, class) ==
    LET class_name == IF Len(li.class) > 0 THEN li.class[1] ELSE Class("", <<>>)
        digits == SubSeq(class_name.suffix, 1,
                         RunEnd(class_name.suffix, 1, Digits) - 1)
        level  == IF class_name.stem = "level" /\ Len(digits) > 0
                  THEN int(digits) ELSE 0
        text   == SelectSeq(get_text(li.html), LAMBDA c : c # "bullet")
        rest   == SubSeq(text, RunEnd(text, RunEnd(text, 1, Digits), Whitespace),
                         Len(text))
    IN  [level |-> level,
         text |-> IF class = "selenium" /\ level = 1 THEN rest ELSE text]

extract_toc(soup, class) ==
    IF soup.toc.present
    THEN [k \in 1..Len(soup.toc.li) |-> toc_entry(soup.toc.li[k], class)]
    ELSE <<>>

\* ref_url after the "additional checks": "//..." gets "https:" in front,
\* "/..." the site's origin, anything else stays
normalize_url(ref_url) ==
    IF Len(ref_url) = 0 \/ ref_url[1] \in {"http://", "https://"} THEN ref_url
    ELSE IF Len(ref_url) >= 2 /\ ref_url[1] = "/" /\ ref_url[2] = "/"
    THEN <<"https:">> \o ref_url
    ELSE IF ref_url[1] = "/" THEN <<"https://baike.baidu.com">> \o ref_url
    ELSE ref_url

\* the date of a reference item from its span " [<label><date>]": the
\* brackets and the label (the piece "date_label") are removed
reference_date(item) ==
    IF ~item.date.present THEN <<>>
    ELSE strip(SelectSeq(
             strip(SelectSeq(
                 strip(SelectSeq(get_text(item.date.html), LAMBDA c : c # "[")),
                 LAMBDA c : c # "date_label")),
             LAMBDA c : c # "]"))

\* the dict appended for the i-th item of the reference list
reference_entry(item, i, class) ==
    IF class = "selenium"
    THEN LET ref_link == IF item.link.present /\ item.link.class.stem = "refLink"
                         THEN item.link ELSE Absent
         IN  [id |-> str(i),
              title |-> IF ref_link.present THEN get_text(ref_link.html) ELSE <<>>,
              url |-> IF ref_link.present THEN normalize_url(ref_link.href) ELSE <<>>,
              ref_date |-> reference_date(item)]
    ELSE [id |-> str(i),
          title |-> get_text(item.html),
          url |-> IF item.link.present THEN item.link.href ELSE <<>>]

\* ref_items: the <li> of the list the class looks into, and for the
\* Selenium class without any <li> the elements with "reference" in
\* their class
reference_items(soup, class) ==
    IF ~soup.references.present THEN <<>>
    ELSE LET ref_div == soup.references
         IN  IF class = "requests"
             THEN IF ref_div.class = Class("lemmaReference", <<"_Dc3xe">>)
                         /\ ref_div.list = Class("referenceList", <<"_Qc5h3">>)
                  THEN ref_div.li ELSE <<>>
             ELSE IF ref_div.class.stem # "lemmaReference" THEN <<>>
             ELSE IF Len(ref_div.li) > 0 THEN ref_div.li
             ELSE ref_div.other

\* re.search(r'\[(\d+)(?:-(\d+))?\]', s): the numbers of the first token
\* "[n]" or "[a-b]" found from position i on, none when there is no token
RECURSIVE first_citation_numbers(_, _)
first_citation_numbers(s, i) ==
    IF i > Len(s) THEN {}
    ELSE LET d == RunEnd(s, i + 1, Digits)
             e == RunEnd(s, d + 1, Digits)
         IN  IF s[i] # "[" \/ d = i + 1 \/ d > Len(s)
             THEN first_citation_numbers(s, i + 1)
             ELSE IF s[d] = "]" THEN {int(SubSeq(s, i + 1, d - 1))}
             ELSE IF s[d] = "-" /\ e > d + 1 /\ e <= Len(s) /\ s[e] = "]"
             THEN int(SubSeq(s, i + 1, d - 1))..int(SubSeq(s, d + 1, e - 1))
             ELSE first_citation_numbers(s, i + 1)

\* (a variant that takes the second bound of a range for excluded)
citation_numbers_excl(sups) ==
    UNION { LET ns == first_citation_numbers(strip(sups[k]), 1)
            IN  IF Cardinality(ns) > 1 THEN ns \ {SetMax(ns)} ELSE ns :
                k \in 1..Len(sups) }

\* citation_numbers after the loop over soup.find_all('sup')
citation_numbers(sups) ==
    UNION { first_citation_numbers(strip(sups[k]), 1) : k \in 1..Len(sups) }

\* sorted(citation_numbers)
RECURSIVE sorted(_)
sorted(numbers) ==
    IF numbers = {} THEN <<>>
    ELSE <<SetMin(numbers)>> \o sorted(numbers \ {SetMin(numbers)})

\* the placeholder references made from the citation numbers
placeholders(numbers) ==
    [k \in 1..Len(sorted(numbers)) |->
        [id |-> str(sorted(numbers)[k]),
         title |-> <<"Reference ">> \o str(sorted(numbers)[k]),
         url |-> <<>>]]

\* the text of every <sup> element of the page, in document order
RECURSIVE sups_of(_)
sups_of(fragments) ==
    IF Len(fragments) = 0 THEN <<>>
    ELSE [k \in 1..Len(SelectSeq(fragments[1], LAMBDA n : n.sup)) |->
             SelectSeq(fragments[1], LAMBDA n : n.sup)[k].text]
             \o sups_of(Tail(fragments))

\* the fragments of a page in which a <sup> element can occur
RECURSIVE child_fragments(_)
child_fragments(children) ==
    IF Len(children) = 0 THEN <<>>
    ELSE LET element == children[1]
             cells == [r \in 1..Len(element.table) |->
                          [c \in 1..Len(element.table[r]) |-> element.table[r][c].html]]
             Concat[r \in 0..Len(cells)] ==
                 IF r = 0 THEN <<>> ELSE Concat[r - 1] \o cells[r]
         IN  <<element.html>> \o element.li \o Concat[Len(cells)]
                 \o child_fragments(Tail(children))

\* the content of an element that may be absent
html_of(node) == IF node.present THEN node.html ELSE <<>>

find_all_sups(soup) ==
    sups_of(<<html_of(soup.title), html_of(soup.short_description),
              html_of(soup.abstract)>>
            \o (IF soup.info_box.present
                THEN [k \in 1..Len(soup.info_box.items) |->
                         html_of(soup.info_box.items[k].value)]
                ELSE <<>>)
            \o (IF soup.toc.present
                THEN [k \in 1..Len(soup.toc.li) |-> soup.toc.li[k].html]
                ELSE <<>>)
            \o child_fragments(soup.content.children)
            \o (IF soup.references.present
                THEN [k \in 1..Len(soup.references.li) |-> soup.references.li[k].html]
                ELSE <<>>))

extract_references(soup, class) ==
    LET ref_items == reference_items(soup, class)
        references == [i \in 1..Len(ref_items) |->
                          reference_entry(ref_items[i], i, class)]
    IN  IF Len(references) = 0 /\ class = "selenium"
        THEN placeholders(citation_numbers(find_all_sups(soup)))
        ELSE references

\* the extraction part of scrape_page as one call: every extractor in
\* turn, then the dict "data"; a ValueError of the Normalizer in any of
\* them ends the call
extract_data(soup, class, seed) ==
    LET abstract == extract_abstract(soup, class, seed)
        info_box == extract_info_box(soup, class, seed)
        blocks   == extract_children(soup.content.children, 1, class, seed,
                        [clean |-> <<>>, with_citations |-> <<>>, raised |-> FALSE])
    IN  [raised |-> abstract.raised \/ info_box.raised
                        \/ (soup.content.present /\ blocks.raised),
         data |-> [title |-> extract_title(soup),
                   short_description |-> extract_short_description(soup),
                   abstract |-> [clean |-> abstract.clean,
                                 with_citations |-> abstract.with_citations],
                   info_box |-> [clean |-> info_box.clean,
                                 with_citations |-> info_box.with_citations],
                   toc |-> extract_toc(soup, class),
                   content |-> extract_content(soup.content, class, seed),
                   references |-> extract_references(soup, class)]]

(***************************************************************************)
(* A page from its parsed tree to its two Markdown strings: the extraction *)
(* part of scrape_page, then generate_markdown_content step by step.       *)
(***************************************************************************)
ExampleTitle == <<"E", "x", "a", "m", "p", "l", "e", " ", "C", "o", "r", "p">>

\* a paragraph whose marker "[1]" occurs twice, as two elements
ExampleParagraph ==
    Element(<<Class("content_pzMvr", <<>>)>>, "", <<>>, <<>>,
            << [sup |-> FALSE, text |-> <<"a", "b", "c">>],
               [sup |-> TRUE, text |-> <<"[", "1", "]">>],
               [sup |-> TRUE, text |-> <<"[", "1", "]">>] >>, <<>>, <<>>)

\* the same with a blank between the two elements
ExampleParagraphSpaced ==
    Element(<<Class("content_pzMvr", <<>>)>>, "", <<>>, <<>>,
            << [sup |-> FALSE, text |-> <<"a", "b", "c">>],
               [sup |-> TRUE, text |-> <<"[", "1", "]">>],
               [sup |-> FALSE, text |-> <<" ">>],
               [sup |-> TRUE, text |-> <<"[", "1", "]">>] >>,
            <<>>, <<>>)

\* an abstract with a range marker and a marker with a leading zero
RangeHtml ==
    << [sup |-> FALSE, text |-> <<"x">>],
       [sup |-> TRUE, text |-> <<"[", "3", "-", "4", "]">>],
       [sup |-> TRUE, text |-> <<"[", "0", "2", "]">>] >>

\* an abstract whose one marker element holds two tokens
TwoTokenHtml ==
    << [sup |-> FALSE, text |-> <<"x">>],
       [sup |-> TRUE, text |-> <<"[", "1", "]", " ", "[", "3", "]">>] >>

\* an item of a reference list: its text, its <a> and its date span
ReferenceItem(html, link, date) == [html |-> html, link |-> link, date |-> date]

Link(class, href, html) ==
    [present |-> TRUE, class |-> class, href |-> href, html |-> html]

\* a reference section: its class, the class of the <ul> that holds its
\* <li> (no stem: there is no <ul>), the <li>, and the other elements
\* with "reference" in their class
ReferenceSection(class, list, li, other) ==
    [present |-> TRUE, class |-> class, list |-> list, li |-> li, other |-> other]

ReferenceSections ==
    { Absent,
      \* the list of the live site, one item with link and date
      ReferenceSection(Class("lemmaReference", <<"_Dc3xe">>),
                       Class("referenceList", <<"_Qc5h3">>),
                       << ReferenceItem(Text(<<"r">>),
                              Link(Class("refLink", <<"_x">>), <<"/", "u">>, Text(<<"r">>)),
                              Node(Text(<<" ", "[", "date_label", "9", "]">>))) >>,
                       <<>>),
      \* other class suffixes, one item without a link
      ReferenceSection(Class("lemmaReference", <<"_x">>), Class("", <<>>),
                       << ReferenceItem(Text(<<"r">>), Absent, Absent) >>, <<>>),
      \* a section without any item
      ReferenceSection(Class("lemmaReference", <<"_Dc3xe">>),
                       Class("referenceList", <<"_Qc5h3">>), <<>>, <<>>) }

Pages ==
    [ title : {Absent, Node(Text(ExampleTitle))},
      short_description : {Absent, Node(Text(<<"d">>))},
      abstract : {Absent, Node(CitedHtml), Node(RangeHtml), Node(TwoTokenHtml),
                  Node(MalformedHtml)},
      info_box : {Absent,
                  [present |-> TRUE,
                   items |-> << [name |-> Node(Text(<<"k">>)), value |-> Node(CitedHtml)],
                                [name |-> Absent, value |-> Node(Text(<<"v">>))] >>]},
      toc : {Absent,
             [present |-> TRUE,
              li |-> << [class |-> <<Class("level", <<"1">>)>>,
                         html |-> Text(<<"1", " ", "bullet", "s">>)],
                        [class |-> <<>>, html |-> Text(<<"t">>)] >>]},
      content : {[present |-> FALSE, children |-> <<>>],
                 [present |-> TRUE, children |-> <<ExampleParagraph>>],
                 [present |-> TRUE, children |-> <<ExampleParagraphSpaced>>],
                 [present |-> TRUE,
                  children |-> << Element(<<Class("content_pzMvr", <<>>)>>, "",
                                          <<>>, <<>>, MalformedHtml, <<>>, <<>>) >>]},
      references : ReferenceSections ]

InitPage ==
    /\ impl \in Classes
    /\ hashSeed = 0
    /\ document \in Pages
    /\ data = <<>>
    /\ md_content = <<>>
    /\ md_content_with_citations = <<>>
    /\ item_idx = 0
    /\ mpc = "extract"
    /\ fragment = <<>>
    /\ pc = "idle"
    /\ clean = <<>>
    /\ cleanSrc = <<>>
    /\ extracted = <<>>
    /\ clean_text = <<>>
    /\ citation_groups = <<>>
    /\ gi = 0
    /\ result_text = <<>>
    /\ annotated = <<>>
    /\ ci = 0
    /\ content = <<>>
    /\ content_with_citations = <<>>
    /\ cpc = "idle"
    /\ prior = [ran |-> FALSE, clean |-> <<>>]
    /\ TableIdle
    /\ RunIdle

\* scrape_page from the parsed tree to the dict "data", extractor by
\* extractor; an exception ends the call before anything is rendered.
\* Until the dict is assembled, data holds the locals of scrape_page.
ExtractAnchors ==
    /\ mpc = "extract"
    /\ LET abstract == extract_abstract(document, impl, hashSeed)
           info_box == extract_info_box(document, impl, hashSeed)
       IN  IF abstract.raised
           THEN mpc' = "raised" /\ UNCHANGED data
           ELSE IF info_box.raised
           THEN /\ mpc' = "raised"
                /\ data' = [title |-> extract_title(document),
                            short_description |-> extract_short_description(document),
                            abstract |-> [clean |-> abstract.clean,
                                          with_citations |-> abstract.with_citations]]
           ELSE /\ mpc' = "extract_content"
                /\ data' = [title |-> extract_title(document),
                            short_description |-> extract_short_description(document),
                            abstract |-> [clean |-> abstract.clean,
                                          with_citations |-> abstract.with_citations],
                            info_box |-> [clean |-> info_box.clean,
                                          with_citations |-> info_box.with_citations],
                            toc |-> extract_toc(document, impl)]
    /\ UNCHANGED <<impl, hashSeed, md_content, md_content_with_citations, item_idx>>
    /\ UNCHANGED OutsideMarkdown

ExtractContent ==
    /\ mpc = "extract_content"
    /\ LET blocks == extract_children(document.content.children, 1, impl, hashSeed,
                         [clean |-> <<>>, with_citations |-> <<>>, raised |-> FALSE])
       IN  IF document.content.present /\ blocks.raised
           THEN mpc' = "raised" /\ UNCHANGED data
           ELSE /\ mpc' = "extract_references"
                /\ data' = [title |-> data.title,
                            short_description |-> data.short_description,
                            abstract |-> data.abstract,
                            info_box |-> data.info_box,
                            toc |-> data.toc,
                            content |-> IF document.content.present
                                        THEN [clean |-> blocks.clean,
                                              with_citations |-> blocks.with_citations]
                                        ELSE [clean |-> <<>>, with_citations |-> <<>>]]
    /\ UNCHANGED <<impl, hashSeed, md_content, md_content_with_citations, item_idx>>
    /\ UNCHANGED OutsideMarkdown

\* extract_references, then the dict "data" is assembled
ExtractReferences ==
    /\ mpc = "extract_references"
    /\ data' = [title |-> data.title,
                short_description |-> data.short_description,
                abstract |-> data.abstract,
                info_box |-> data.info_box,
                toc |-> data.toc,
                content |-> data.content,
                references |-> extract_references(document, impl)]
    /\ mpc' = "front"
    /\ UNCHANGED <<impl, hashSeed, md_content, md_content_with_citations, item_idx>>
    /\ UNCHANGED OutsideMarkdown

NextPage ==
    \/ ExtractAnchors
    \/ ExtractContent
    \/ ExtractReferences
    \/ NextMarkdown

SpecPage == InitPage /\ [][NextPage]_vars

(***************************************************************************)
(* The batch loops and the page calls: scrape_multiple_pages and           *)
(* scrape_page of BaiduBaikeSeleniumScraper, main, scrape_page and         *)
(* get_page of baidu_scraper.  What the network, the browser and the page  *)
(* do is chosen freely at each step.                                       *)
(***************************************************************************)
MaxUrls == 2

\* max_retries of scrape_page, setup_driver and get_page
max_retries == 3

Urls == { <<"a">>, <<"b", " ">> }

\* url.replace(" ", "")
remove_spaces(url) == SelectSeq(url, LAMBDA c : c # " ")

\* the dict "data" of a scraped page, as far as the loops look at it: the
\* Selenium class stores the cleaned url, baidu_scraper stores no url
Document(url, class) ==
    [url |-> IF class = "selenium" THEN remove_spaces(url) ELSE <<>>]

\* "ret" before the page call has ended
Pending == [kind |-> "pending", data |-> [url |-> <<>>]]

Event(op, url) == [op |-> op, url |-> url]

\* n copies of an event
Repeat(e, n) == [k \in 1..n |-> e]

\* list.index(x), 0-based
index(list, x) == SetMin({k \in 1..Len(list) : list[k] = x}) - 1

\* (a variant of driver.quit() that leaves the browser running)
quit_not(d, running) == running

\* driver.quit(): the browser of d is gone, whether or not quit() raises
quit(d, running) == running \ {d}

InitRun ==
    /\ impl \in Classes
    /\ hashSeed = 0
    /\ urls \in UNION {[1..n -> Urls] :
                          n \in (IF impl = "requests" THEN 1 ELSE 0)..MaxUrls}
    /\ url_idx = 0
    /\ results = <<>>
    /\ batch_log = <<>>
    /\ attempt = 0
    /\ driver = 0
    /\ created = 0
    /\ live = {}
    /\ page_log = <<>>
    /\ ret = Pending
    /\ rpc = "batch"
    /\ fragment = <<>>
    /\ pc = "idle"
    /\ clean = <<>>
    /\ cleanSrc = <<>>
    /\ extracted = <<>>
    /\ clean_text = <<>>
    /\ citation_groups = <<>>
    /\ gi = 0
    /\ result_text = <<>>
    /\ annotated = <<>>
    /\ document = [present |-> FALSE, children |-> <<>>]
    /\ ci = 0
    /\ content = <<>>
    /\ content_with_citations = <<>>
    /\ cpc = "idle"
    /\ prior = [ran |-> FALSE, clean |-> <<>>]
    /\ TableIdle
    /\ MarkdownIdle

\* what a step of the loops leaves alone
OutsideRun == <<impl, hashSeed, normVars, contentVars, prior, tableVars,
                markdownVars>>

\* scrape_multiple_pages: the loop takes the next url and calls
\* scrape_page, which cleans the url and sets driver = None
CallScrapePage ==
    /\ rpc = "batch"
    /\ impl = "selenium"
    /\ url_idx < Len(urls)
    /\ batch_log' = Append(batch_log, Event("scrape_page", urls[url_idx + 1]))
    /\ attempt' = 0
    /\ driver' = 0
    /\ created' = 0
    /\ live' = {}
    /\ page_log' = <<>>
    /\ ret' = Pending
    /\ rpc' = "attempt"
    /\ UNCHANGED <<urls, url_idx, results>>
    /\ UNCHANGED OutsideRun

\* the head of an attempt: on a retry the previous driver is quit first
QuitPrevious ==
    /\ rpc = "attempt"
    /\ IF driver # 0
       THEN /\ live' = quit(driver, live)
            /\ page_log' = Append(page_log, "quit")
       ELSE UNCHANGED <<live, page_log>>
    /\ rpc' = "setup"
    /\ UNCHANGED <<urls, url_idx, results, batch_log, attempt, driver,
                   created, ret>>
    /\ UNCHANGED OutsideRun

\* driver = self.setup_driver(): up to max_retries launches with a sleep
\* after each failed one but the last; the last failure is raised
SetupDriver ==
    /\ rpc = "setup"
    /\ \E failures \in 0..max_retries :
           IF failures < max_retries
           THEN /\ created' = created + 1
                /\ driver' = created + 1
                /\ live' = live \cup {created + 1}
                /\ page_log' = page_log \o Repeat("setup_sleep", failures)
                                   \o <<"setup_driver">>
                /\ rpc' = "get"
           ELSE /\ page_log' = page_log \o Repeat("setup_sleep", max_retries - 1)
                                   \o <<"setup_failed">>
                /\ rpc' = "navigation_failed"
                /\ UNCHANGED <<created, driver, live>>
    /\ UNCHANGED <<urls, url_idx, results, batch_log, attempt, ret>>
    /\ UNCHANGED OutsideRun

\* driver.get(url)
Get ==
    /\ rpc = "get"
    /\ \E loaded \in BOOLEAN :
           IF loaded
           THEN /\ page_log' = Append(page_log, "get")
                /\ rpc' = "wait"
           ELSE /\ page_log' = page_log \o <<"get", "get_failed">>
                /\ rpc' = "navigation_failed"
    /\ UNCHANGED <<urls, url_idx, results, batch_log, attempt, driver,
                   created, live, ret>>
    /\ UNCHANGED OutsideRun

\* the two waits: for J-lemma-title, then for J-summary; either one found
\* leaves the retry loop
Wait ==
    /\ rpc = "wait"
    /\ \E found \in {"J-lemma-title", "J-summary", "neither"} :
           IF found = "neither"
           THEN /\ page_log' = Append(page_log, "wait_failed")
                /\ rpc' = "wait_failed"
           ELSE /\ page_log' = Append(page_log, "wait_succeeded")
                /\ rpc' = "loaded"
    /\ UNCHANGED <<urls, url_idx, results, batch_log, attempt, driver,
                   created, live, ret>>
    /\ UNCHANGED OutsideRun

\* (a variant that hands on to the attempt's handler after its sleep)
WaitFailed_and_raise ==
    /\ rpc = "wait_failed"
    /\ page_log' = IF attempt < max_retries - 1
                   THEN Append(page_log, "sleep")
                   ELSE page_log
    /\ rpc' = "navigation_failed"
    /\ UNCHANGED <<urls, url_idx, results, batch_log, attempt, driver,
                   created, live, ret>>
    /\ UNCHANGED OutsideRun

\* the handler of the second wait: sleep and go on with the next attempt,
\* or raise to the handler of the attempt when this was the last one
WaitFailed ==
    /\ rpc = "wait_failed"
    /\ IF attempt < max_retries - 1
       THEN /\ page_log' = Append(page_log, "sleep")
            /\ attempt' = attempt + 1
            /\ rpc' = "attempt"
       ELSE /\ rpc' = "navigation_failed"
            /\ UNCHANGED <<page_log, attempt>>
    /\ UNCHANGED <<urls, url_idx, results, batch_log, driver, created, live, ret>>
    /\ UNCHANGED OutsideRun

\* the handler of the attempt: sleep and go on with the next attempt, or
\* raise to the handler of scrape_page when this was the last one
NavigationFailed ==
    /\ rpc = "navigation_failed"
    /\ IF attempt < max_retries - 1
       THEN /\ page_log' = Append(page_log, "sleep")
            /\ attempt' = attempt + 1
            /\ rpc' = "attempt"
       ELSE /\ rpc' = "except"
            /\ UNCHANGED <<page_log, attempt>>
    /\ UNCHANGED <<urls, url_idx, results, batch_log, driver, created, live, ret>>
    /\ UNCHANGED OutsideRun

\* after the loop: the output folder and raw.html are written, the page is
\* extracted and the files are saved; any of it may raise
ExtractAndSave ==
    /\ rpc = "loaded"
    /\ page_log' = Append(page_log, "output")
    /\ \E raised \in BOOLEAN :
           IF raised
           THEN rpc' = "except" /\ UNCHANGED ret
           ELSE /\ ret' = [kind |-> "data",
                           data |-> Document(urls[url_idx + 1], impl)]
                /\ rpc' = "finally"
    /\ UNCHANGED <<urls, url_idx, results, batch_log, attempt, driver,
                   created, live>>
    /\ UNCHANGED OutsideRun

\* except Exception: return None
Except ==
    /\ rpc = "except"
    /\ ret' = [kind |-> "None", data |-> [url |-> <<>>]]
    /\ rpc' = "finally"
    /\ UNCHANGED <<urls, url_idx, results, batch_log, attempt, driver,
                   created, live, page_log>>
    /\ UNCHANGED OutsideRun

\* finally: quit the driver if there is one
Finally ==
    /\ rpc = "finally"
    /\ IF driver # 0
       THEN /\ live' = quit(driver, live)
            /\ page_log' = Append(page_log, "quit")
       ELSE UNCHANGED <<live, page_log>>
    /\ rpc' = "returned"
    /\ UNCHANGED <<urls, url_idx, results, batch_log, attempt, driver,
                   created, ret>>
    /\ UNCHANGED OutsideRun

\* (a variant whose loop ends at the first page that failed)
CollectResult_until_failure ==
    /\ rpc = "returned"
    /\ impl = "selenium"
    /\ results' = IF ret.kind = "data" THEN Append(results, ret.data) ELSE results
    /\ batch_log' = Append(batch_log, Event(ret.kind, urls[url_idx + 1]))
    /\ url_idx' = IF ret.kind = "data" THEN url_idx + 1 ELSE Len(urls)
    /\ rpc' = "batch"
    /\ UNCHANGED <<urls, attempt, driver, created, live, page_log, ret>>
    /\ UNCHANGED OutsideRun

\* scrape_multiple_pages after the call: keep the data of a page that
\* succeeded, sleep unless this was the last url (the log notes how the
\* call ended, then the sleep)
CollectResult ==
    /\ rpc = "returned"
    /\ impl = "selenium"
    /\ results' = IF ret.kind = "data" THEN Append(results, ret.data) ELSE results
    /\ batch_log' = batch_log \o <<Event(ret.kind, urls[url_idx + 1])>>
                         \o (IF url_idx < Len(urls) - 1
                             THEN <<Event("sleep", <<>>)>>
                             ELSE <<>>)
    /\ url_idx' = url_idx + 1
    /\ rpc' = "batch"
    /\ UNCHANGED <<urls, attempt, driver, created, live, page_log, ret>>
    /\ UNCHANGED OutsideRun

\* the loop is over: scrape_multiple_pages returns results, main goes on
LoopEnd ==
    /\ rpc = "batch"
    /\ url_idx = Len(urls)
    /\ rpc' = "end"
    /\ UNCHANGED <<urls, url_idx, results, batch_log, attempt, driver,
                   created, live, page_log, ret>>
    /\ UNCHANGED OutsideRun

\* main of baidu_scraper: the loop takes the next url and calls
\* scrape_page, which calls get_page
CallScrapePageRequests ==
    /\ rpc = "batch"
    /\ impl = "requests"
    /\ url_idx < Len(urls)
    /\ batch_log' = Append(batch_log, Event("scrape_page", urls[url_idx + 1]))
    /\ attempt' = 0
    /\ page_log' = <<>>
    /\ ret' = Pending
    /\ rpc' = "request"
    /\ UNCHANGED <<urls, url_idx, results, driver, created, live>>
    /\ UNCHANGED OutsideRun

\* get_page: session.get and raise_for_status; the text of a good
\* response is returned at once
SessionGet ==
    /\ rpc = "request"
    /\ \E succeeded \in BOOLEAN :
           IF succeeded
           THEN /\ page_log' = page_log \o <<"request", "response">>
                /\ rpc' = "got"
           ELSE /\ page_log' = page_log \o <<"request", "request_failed">>
                /\ rpc' = "request_failed"
    /\ UNCHANGED <<urls, url_idx, results, batch_log, attempt, driver,
                   created, live, ret>>
    /\ UNCHANGED OutsideRun

\* (a variant that sleeps before it looks at the attempt number)
RequestFailed_sleep_first ==
    /\ rpc = "request_failed"
    /\ page_log' = Append(page_log, "random_sleep")
    /\ IF attempt = max_retries - 1
       THEN /\ ret' = [kind |-> "raised", data |-> [url |-> <<>>]]
            /\ rpc' = "returned"
            /\ UNCHANGED attempt
       ELSE /\ attempt' = attempt + 1
            /\ rpc' = "request"
            /\ UNCHANGED ret
    /\ UNCHANGED <<urls, url_idx, results, batch_log, driver, created, live>>
    /\ UNCHANGED OutsideRun

\* get_page's handler of RequestException: raise after the last attempt,
\* else random_sleep and try again
RequestFailed ==
    /\ rpc = "request_failed"
    /\ IF attempt = max_retries - 1
       THEN /\ ret' = [kind |-> "raised", data |-> [url |-> <<>>]]
            /\ rpc' = "returned"
            /\ UNCHANGED <<page_log, attempt>>
       ELSE /\ page_log' = Append(page_log, "random_sleep")
            /\ attempt' = attempt + 1
            /\ rpc' = "request"
            /\ UNCHANGED ret
    /\ UNCHANGED <<urls, url_idx, results, batch_log, driver, created, live>>
    /\ UNCHANGED OutsideRun

\* scrape_page of baidu_scraper after get_page: the output folder and
\* raw.html are written, the page is extracted and saved, then
\* random_sleep; the extraction may raise
ExtractAndSaveRequests ==
    /\ rpc = "got"
    /\ \E raised \in BOOLEAN :
           IF raised
           THEN /\ page_log' = Append(page_log, "output")
                /\ ret' = [kind |-> "raised", data |-> [url |-> <<>>]]
           ELSE /\ page_log' = page_log \o <<"output", "random_sleep">>
                /\ ret' = [kind |-> "data",
                           data |-> Document(urls[url_idx + 1], impl)]
    /\ rpc' = "returned"
    /\ UNCHANGED <<urls, url_idx, results, batch_log, attempt, driver,
                   created, live>>
    /\ UNCHANGED OutsideRun

\* main after the call: an exception is logged; then the extra sleep
\* when urls.index(url) < len(urls) - 1
SleepBetweenUrls ==
    /\ rpc = "returned"
    /\ impl = "requests"
    /\ batch_log' = batch_log \o <<Event(ret.kind, urls[url_idx + 1])>>
                         \o (IF index(urls, urls[url_idx + 1]) < Len(urls) - 1
                             THEN <<Event("sleep", <<>>)>>
                             ELSE <<>>)
    /\ url_idx' = url_idx + 1
    /\ rpc' = "batch"
    /\ UNCHANGED <<urls, results, attempt, driver, created, live, page_log, ret>>
    /\ UNCHANGED OutsideRun

NextRun ==
    \/ CallScrapePage
    \/ QuitPrevious
    \/ SetupDriver
    \/ Get
    \/ Wait
    \/ WaitFailed
    \/ NavigationFailed
    \/ ExtractAndSave
    \/ Except
    \/ Finally
    \/ CollectResult
    \/ LoopEnd
    \/ CallScrapePageRequests
    \/ SessionGet
    \/ RequestFailed
    \/ ExtractAndSaveRequests
    \/ SleepBetweenUrls

SpecRun == InitRun /\ [][NextRun]_vars

\* every call made returns or raises, and the loops go on after it
FairSpecRun == SpecRun /\ WF_vars(NextRun)

(***************************************************************************)
(* Vocabulary of the properties.                                           *)
(***************************************************************************)
Chars(s) == {s[k] : k \in 1..Len(s)}

NonWhitespace(s) == SelectSeq(s, LAMBDA c : c \notin Whitespace)

MarkerBearing == find_all_sup(fragment) # {}

\* the bracket groups "[n1, n2, ...]" of a text, left to right
GroupsOf(s) == position_to_citation(s, 1)

\* the integers a group lists, in the order it lists them
GroupInts(citation) ==
    LET parts == split(citation, ",")
    IN  [k \in 1..Len(parts) |-> int(strip(parts[k]))]

\* A well-formed range token "[a-b]" starts at index i of s and ends at e.
RangeTokenAt(s, i, e) ==
    /\ 1 <= i /\ e <= Len(s) /\ s[i] = "[" /\ s[e] = "]"
    /\ \E h \in (i + 2)..(e - 2) :
           /\ s[h] = "-"
           /\ \A k \in ((i + 1)..(e - 1)) \ {h} : s[k] \in Digits

RangeLow(s, i, e) ==
    int(SubSeq(s, i + 1, (CHOOSE h \in i..e : s[h] = "-") - 1))

RangeHigh(s, i, e) ==
    int(SubSeq(s, (CHOOSE h \in i..e : s[h] = "-") + 1, e - 1))

\* "a, a+1, ..., b" written out number by number
RECURSIVE Listing(_, _)
Listing(a, b) ==
    IF a = b THEN str(a) ELSE str(a) \o <<",", " ">> \o Listing(a + 1, b)

\* the number of clusters that spans at least 4 characters apart fall into
GapClusters(found) ==
    IF Len(found) = 0 THEN 0
    ELSE 1 + Cardinality({k \in 1..(Len(found) - 1) :
                             found[k + 1].pos[1] - found[k].pos[2] > 3})

\* the members of all clusters, left to right
RECURSIVE Flatten(_)
Flatten(groups) ==
    IF Len(groups) = 0 THEN <<>> ELSE groups[1] \o Flatten(Tail(groups))

\* The token-list fold: the literal text before each cluster, then the
\* cluster's token (the merged group for a cluster of several groups with
\* index >= mergedFrom, its own text otherwise), then the remaining text.
RECURSIVE JoinTokens(_, _, _, _, _, _)
JoinTokens(text, groups, k, from, mergedFrom, seed) ==
    IF k > Len(groups) THEN slice(text, from, Len(text))
    ELSE LET g == groups[k]
             s == g[1].pos[1]
             e == g[Len(g)].pos[2]
         IN  slice(text, from, s)
                 \o (IF Len(g) > 1 /\ k >= mergedFrom
                     THEN combined_citation(g, seed)
                     ELSE slice(text, s, e))
                 \o JoinTokens(text, groups, k + 1, e, mergedFrom, seed)

\* the text with every bracket group "[...]" of digits, commas and blanks
\* deleted
RECURSIVE DeleteGroups(_, _)
DeleteGroups(s, i) ==
    IF i > Len(s) THEN <<>>
    ELSE LET d == RunEnd(s, i + 1, Digits \cup Whitespace \cup {","})
         IN  IF s[i] = "[" /\ d <= Len(s) /\ s[d] = "]"
             THEN DeleteGroups(s, d + 1)
             ELSE <<s[i]>> \o DeleteGroups(s, i + 1)

\* the text of the leaves outside every marker, joined
RECURSIVE TextOutsideMarkers(_)
TextOutsideMarkers(nodes) ==
    IF Len(nodes) = 0 THEN <<>>
    ELSE (IF nodes[1].sup THEN <<>> ELSE nodes[1].text)
             \o TextOutsideMarkers(Tail(nodes))

(***************************************************************************)
(* The Citation Normalizer: properties.                                    *)
(***************************************************************************)
\* C2: every cluster of more than one bracket group is replaced by a single
\* bracket that holds each distinct citation number of the cluster exactly
\* once, ascending by integer value, joined by ", ".  The bracket is read
\* right after its cluster was replaced, while the cluster's start offset
\* is still valid (every earlier replacement lies to its right).
C2_MergedGroupDistinctAscending ==
    pc = "replace" =>
        \A k \in {gi} \ {0} :
            LET group   == citation_groups[Len(citation_groups) + 1 - k]
                start   == group[1].pos[1]
                close   == SetMin({e \in (start + 1)..Len(result_text) :
                                      result_text[e] = "]"})
                inner   == SubSeq(result_text, start + 2, close - 1)
                ints    == GroupInts(inner)
                members == all_numbers(group)
            IN  Len(group) > 1 =>
                    /\ result_text[start + 1] = "["
                    /\ \A a, b \in 1..Len(ints) : a < b => ints[a] < ints[b]
                    /\ {ints[a] : a \in 1..Len(ints)}
                           = {int(members[a]) : a \in 1..Len(members)}
                    /\ inner = join([a \in 1..Len(ints) |->
                                        strip(split(inner, ",")[a])])

\* C3 as stated: two consecutive bracket groups of the extracted text end
\* up in one group of the output iff at most 3 characters lie between
\* them, so the output has one group per gap-cluster of the extracted text.
C3_ExtractedGroupsMergeIffWithin3 ==
    (pc = "done" /\ MarkerBearing /\ "-" \notin Chars(extracted)) =>
        Len(GroupsOf(annotated)) = GapClusters(GroupsOf(extracted))

\* C3 amended: two consecutive bracket groups of the text after duplicate
\* collapse and range expansion are put in one cluster iff at most 3
\* characters lie between them, and the output has exactly one group per
\* cluster: groups more than 3 characters apart stay separate.
C3_ScannedGroupsMergeIffWithin3 ==
    /\ pc \in {"replace", "done"} =>
           LET found == GroupsOf(clean_text)
               clusterOf(p) == CHOOSE k \in 1..Len(citation_groups) :
                                   \E m \in 1..Len(citation_groups[k]) :
                                       citation_groups[k][m].pos = p
           IN  /\ Flatten(citation_groups) = found
               /\ \A k \in 1..(Len(found) - 1) :
                      (clusterOf(found[k].pos) = clusterOf(found[k + 1].pos))
                          <=> (found[k + 1].pos[1] - found[k].pos[2] <= 3)
    /\ (pc = "done" /\ MarkerBearing) =>
           /\ Len(GroupsOf(annotated)) = Len(citation_groups)
           /\ Len(citation_groups) = GapClusters(GroupsOf(clean_text))

\* C3 witness: a returned text in which one pair of groups 3 characters
\* apart was merged and a group 4 characters further on stayed separate.
C3_Witness ==
    /\ pc = "done"
    /\ \E k \in 1..(Len(citation_groups) - 1) :
           /\ Len(citation_groups[k]) = 2
           /\ citation_groups[k][2].pos[1] - citation_groups[k][1].pos[2] = 3
           /\ citation_groups[k + 1][1].pos[1] - citation_groups[k][2].pos[2] = 4

\* C4: a malformed range token is left as literal text and
\* format_text_with_citations returns normally: it never raises, and the
\* token with a missing bound is still in the returned text.
C4_MalformedRangeLeftLiteral ==
    /\ pc # "raised"
    /\ (pc = "done" /\ MarkerBearing) =>
           \A i \in 1..(Len(extracted) - 1) :
               (SubSeq(extracted, i, i + 1) = <<"-", "]">>) =>
                   \E j \in 1..(Len(annotated) - 1) :
                       SubSeq(annotated, j, j + 1) = <<"-", "]">>

\* C5: range expansion rewrites every range token "[a-b]" with a <= b to
\* the bracket "[a, a+1, ..., b]" ("[a]" when a = b), leaving the text on
\* either side to its own expansion; in the returned text a group lists
\* every integer of a..b, in ascending order.
C5_RangeExpandedInclusive ==
    /\ pc = "scan" =>
           LET pre == collapse_duplicates(extracted, 1)
           IN  \A i, e \in 1..Len(pre) :
                   (RangeTokenAt(pre, i, e) /\ RangeLow(pre, i, e) <= RangeHigh(pre, i, e)) =>
                       clean_text =
                           expand_ranges(SubSeq(pre, 1, i - 1), 1).text
                               \o <<"[">>
                               \o Listing(RangeLow(pre, i, e), RangeHigh(pre, i, e))
                               \o <<"]">>
                               \o expand_ranges(SubSeq(pre, e + 1, Len(pre)), 1).text
    /\ pc = "done" =>
           \A i, e \in 1..Len(extracted) :
               (MarkerBearing /\ RangeTokenAt(extracted, i, e)
                    /\ RangeLow(extracted, i, e) <= RangeHigh(extracted, i, e)) =>
                   \E g \in 1..Len(GroupsOf(annotated)) :
                       LET ints == GroupInts(GroupsOf(annotated)[g].citation)
                       IN  /\ \A a, b \in 1..Len(ints) : a < b => ints[a] <= ints[b]
                           /\ RangeLow(extracted, i, e)..RangeHigh(extracted, i, e)
                                  \subseteq {ints[a] : a \in 1..Len(ints)}
    /\ (pc = "done" /\ fragment = <<[sup |-> TRUE, text |-> <<"[", "1", "-", "2", "]">>]>>)
           => annotated = <<"[", "1", ",", " ", "2", "]">>
    /\ (pc = "done" /\ fragment = <<[sup |-> TRUE, text |-> <<"[", "2", "-", "2", "]">>]>>)
           => annotated = <<"[", "2", "]">>

\* C5 witness: a text with a range token "[a-b]", a < b, next to other
\* text has been expanded and returned.
C5_Witness ==
    /\ pc = "done"
    /\ Len(fragment) >= 2
    /\ \E i, e \in 1..Len(extracted) :
           RangeTokenAt(extracted, i, e)
               /\ RangeLow(extracted, i, e) < RangeHigh(extracted, i, e)

\* C6: the annotated output of a marker-bearing fragment never contains
\* two identical single-number groups "[n]" separated only by whitespace.
C6_NoDuplicatePairInOutput ==
    (pc = "done" /\ MarkerBearing) =>
        \A i \in 1..Len(annotated) : MatchDuplicate(annotated, i) = 0

\* C7: replacing the clusters one after another from the rightmost to the
\* leftmost gives the token-list fold of the scanned text: after each
\* replacement the text is the fold in which exactly the clusters handled
\* so far are merged, every replacement sits on the span recorded before
\* any replacement, and the text outside those spans is unchanged.
C7_RightToLeftEqualsTokenFold ==
    /\ pc = "replace" =>
           result_text = JoinTokens(clean_text, citation_groups, 1, 0,
                                    Len(citation_groups) - gi + 1, hashSeed)
    /\ (pc = "done" /\ MarkerBearing) =>
           annotated = strip(JoinTokens(clean_text, citation_groups, 1, 0, 1, hashSeed))

\* C7 witness: all clusters are done, two of them held several groups, and
\* the replacements changed the length of the text.
C7_Witness ==
    /\ pc = "replace"
    /\ gi = Len(citation_groups)
    /\ \E j, k \in 1..Len(citation_groups) :
           j < k /\ Len(citation_groups[j]) > 1 /\ Len(citation_groups[k]) > 1
    /\ Len(result_text) # Len(clean_text)

\* C8: clean and annotated carry the same non-citation content: with every
\* citation group deleted they agree up to whitespace, so merging clusters
\* removes no non-citation, non-whitespace character.
C8_SameNonCitationContent ==
    pc = "done" =>
        NonWhitespace(DeleteGroups(annotated, 1)) = NonWhitespace(DeleteGroups(clean, 1))

\* C9: clean_text_without_citations(f) contains no character that
\* originated inside a citation-marker (sup) element of f.
C9_CleanHasNoMarkerText ==
    pc # "clean" =>
        /\ Len(cleanSrc) = Len(clean)
        /\ \A i \in 1..Len(cleanSrc) : ~cleanSrc[i]

\* C9 witness: a fragment with markers and text outside them was cleaned.
C9_Witness ==
    /\ pc = "done"
    /\ MarkerBearing
    /\ Len(clean) > 0

\* C10: clean_text_without_citations(f) keeps, in order, every visible
\* character of f outside the marker elements (up to the trimming of
\* whitespace), a literal "[12]" outside a marker included.
C10_CleanKeepsTextOutsideMarkers ==
    pc # "clean" =>
        NonWhitespace(clean) = NonWhitespace(TextOutsideMarkers(fragment))

(***************************************************************************)
(* The Content Block Extractor: properties.                                *)
(***************************************************************************)
\* C1: the value extract_content returns has as many clean blocks as
\* annotated blocks, and at every index the two blocks carry the same type
\* tag.
C1_ParallelVariants ==
    cpc = "returned" =>
        /\ Len(content) = Len(content_with_citations)
        /\ \A i \in 1..Len(content) :
               content[i].type = content_with_citations[i].type

\* C1 witness: extract_content returned blocks of a heading, a paragraph
\* with markers, list items and a table.
C1_Witness ==
    /\ cpc = "returned"
    /\ {<<"h", 1>>, <<"paragraph">>, <<"ol">>}
           \subseteq {content[i].type : i \in 1..Len(content)}
    /\ \E i \in 1..Len(content) :
           content[i].type = <<"paragraph">>
               /\ content[i].text # content_with_citations[i].text

(***************************************************************************)
(* The Normalizer run again: properties.                                   *)
(***************************************************************************)
\* C11: the Normalizer is idempotent on marker-free text: with c the clean
\* text of a fragment, clean_text_without_citations(c) = c and
\* format_text_with_citations(c) = c.
C11_IdempotentOnCleanOutput ==
    (prior.ran /\ pc = "done") =>
        /\ clean = prior.clean
        /\ annotated = prior.clean

(***************************************************************************)
(* extract_content: error handling.                                        *)
(***************************************************************************)
\* the blocks the first k children contribute to one variant when every
\* child that raises is skipped whole
RECURSIVE BlocksSkippingFailures(_, _)
BlocksSkippingFailures(k, variant) ==
    IF k = 0 THEN <<>>
    ELSE LET r == extract_child(document.children[k], impl, hashSeed,
                                [clean |-> <<>>, with_citations |-> <<>>,
                                 raised |-> FALSE])
         IN  BlocksSkippingFailures(k - 1, variant)
                 \o (IF r.raised THEN <<>>
                     ELSE IF variant = "clean" THEN r.clean ELSE r.with_citations)

\* C12: a child whose processing raises is skipped, with a block in neither
\* variant, and extract_content goes on to return the blocks of every other
\* child in source order.
C12_FailingChildSkipped ==
    /\ cpc # "raised"
    /\ cpc \in {"loop", "returned"} =>
           /\ content = BlocksSkippingFailures(ci, "clean")
           /\ content_with_citations = BlocksSkippingFailures(ci, "with_citations")

(***************************************************************************)
(* extract_table: properties.                                              *)
(***************************************************************************)
\* the colspan of a cell as a number: 1 when absent or not a number
SpanOf(cell) ==
    IF Len(cell.colspan) > 0 /\ \A k \in 1..Len(cell.colspan) : cell.colspan[k] \in Digits
    THEN int(cell.colspan)
    ELSE 1

\* the texts of the cells, each followed by one empty string per extra
\* column it spans
RECURSIVE SpannedRow(_)
SpannedRow(cells) ==
    IF Len(cells) = 0 THEN <<>>
    ELSE <<get_text(cells[1].html)>>
             \o [k \in 1..(IF SpanOf(cells[1]) > 1 THEN SpanOf(cells[1]) - 1 ELSE 0) |-> <<>>]
             \o SpannedRow(Tail(cells))

\* the source rows from the k-th on that contain data cells
RECURSIVE DataRows(_, _)
DataRows(trs, k) ==
    IF k > Len(trs) THEN <<>>
    ELSE (IF Len(find_all_td(trs[k])) > 0 THEN <<trs[k]>> ELSE <<>>) \o DataRows(trs, k + 1)

\* C13: in the row extracted from a source row, every data cell that spans
\* k > 1 columns is followed at once by k - 1 empty strings, before the
\* text of the next source cell, also when several cells of the row span.
C13_FillersFollowSpannedCell ==
    (tpc = "rows" /\ row_idx > table_start_idx(table_node)
         /\ Len(find_all_td(table_node[row_idx])) > 0) =>
        LET row      == table_result.rows[Len(table_result.rows)]
            expected == SpannedRow(find_all_td(table_node[row_idx]))
        IN  /\ Len(row) >= Len(expected)
            /\ SubSeq(row, 1, Len(expected)) = expected

\* C14: every row of the returned table has exactly max_cols cells, where
\* max_cols is the maximum of the header count and the width of the widest
\* row after span expansion; so all rows have the same width.  The widest
\* row is taken among the rows that were extracted or among all the rows
\* of the source, whichever fits.
C14_RowsAllMaxColsWide ==
    tpc = "returned" =>
        LET Widest(source) ==
                SetMax({Len(table_result.headers)}
                    \cup {Len(SpannedRow(find_all_td(source[k]))) : k \in 1..Len(source)})
            AllWide(w) ==
                \A r \in 1..Len(table_result.rows) : Len(table_result.rows[r]) = w
        IN  \/ AllWide(Widest(DataRows(table_node, table_start_idx(table_node) + 1)))
            \/ AllWide(Widest(table_node))

\* C15: with explicit header cells the headers are their texts and every
\* source row that has data cells gives exactly one entry of rows, in
\* source order; without them the first row's cells are the headers and
\* only that row is left out of rows.
C15_HeadersAndDataRows ==
    tpc = "returned" =>
        LET ths    == table_find_all_th(table_node)
            source == IF Len(ths) > 0 THEN DataRows(table_node, 1)
                      ELSE DataRows(table_node, 2)
        IN  /\ Len(ths) > 0 => table_result.headers = cell_texts(ths)
            /\ (Len(ths) = 0 /\ Len(table_node) > 0) =>
                   table_result.headers = cell_texts(table_node[1])
            /\ Len(table_result.rows) = Len(source)
            /\ \A r \in 1..Len(table_result.rows) : r <= Len(source) =>
                   table_result.rows[r][1] = get_text(find_all_td(source[r])[1].html)

(***************************************************************************)
(* extract_content: the table blocks.                                      *)
(***************************************************************************)
\* the rows of a table, from the k-th source row on, when every data cell
\* holds what the Normalizer returns for that cell's own content
RECURSIVE NormalizedRows(_, _, _, _)
NormalizedRows(trs, k, width, variant) ==
    IF k > Len(trs) THEN <<>>
    ELSE LET cells == find_all_td(trs[k])
             texts == [c \in 1..Len(cells) |->
                          IF variant = "clean"
                          THEN clean_text_without_citations(cells[c].html, impl).text
                          ELSE format_text_with_citations(cells[c].html, hashSeed).text]
         IN  (IF Len(cells) > 0
              THEN <<pad_row(expand_colspans(texts, cells, 0), width)>>
              ELSE <<>>)
                 \o NormalizedRows(trs, k + 1, width, variant)

\* the child just processed went through the table branch
TableChildDone ==
    /\ cpc = "loop"
    /\ ci > 0
    /\ impl = "selenium"
    /\ document.children[ci].module = "table"
    /\ document.children[ci].class = <<>>

\* C16: the cells of a table block hold the Normalizer's results for the
\* source cells: the clean cell has no text of the cell's markers, the
\* annotated cell has the cell's citation groups in normalized form.
C16_TableCellsNormalized ==
    TableChildDone =>
        LET trs == document.children[ci].table
            k   == table_start_idx(trs) + 1
        IN  /\ content[Len(content)].text.rows
                   = NormalizedRows(trs, k, table_width(trs), "clean")
            /\ content_with_citations[Len(content_with_citations)].text.rows
                   = NormalizedRows(trs, k, table_width(trs), "with_citations")

(***************************************************************************)
(* generate_markdown_content: properties.                                  *)
(***************************************************************************)
\* C17: rendering leaves the Document as it was: every field of data,
\* the rows of the tables of both content variants included, keeps its
\* value through every step of generate_markdown_content.
C17_RenderingLeavesDocument == [][data' = data]_vars

\* the string of one variant, and whether a piece occurs in a string
MarkdownOf(variant) ==
    IF variant = "clean" THEN md_content ELSE md_content_with_citations

Has(md, piece) == \E k \in 1..Len(md) : md[k] = piece

SectionHeadings ==
    {"## Abstract\n\n", "## Information\n\n", "## Table of Contents\n\n",
     "## Content\n\n", "## References\n\n"}

\* C18: in each variant's Markdown a section (title line, short
\* description, Abstract, Information, Table of Contents, Content,
\* References) is present if and only if that variant's data for it is
\* non-empty.
C18_SectionIffData ==
    mpc = "returned" =>
        \A variant \in {"clean", "with_citations"} :
            LET md == MarkdownOf(variant)
                p  == Len(data.title) + 2
                n  == Len(data.short_description)
            IN  /\ Has(md, "# ") <=> Len(data.title) > 0
                /\ IF n > 0
                   THEN /\ Len(md) >= p + n + 1
                        /\ SubSeq(md, p + 1, p + n + 1)
                               = data.short_description \o <<"\n\n">>
                   ELSE Len(md) > p => md[p + 1] \in SectionHeadings
                /\ Has(md, "## Abstract\n\n") <=> Len(data.abstract[variant]) > 0
                /\ Has(md, "## Information\n\n") <=> Len(data.info_box[variant]) > 0
                /\ Has(md, "## Table of Contents\n\n") <=> Len(data.toc) > 0
                /\ Has(md, "## Content\n\n") <=> Len(data.content[variant]) > 0
                /\ Has(md, "## References\n\n") <=> Len(data.references) > 0

\* what one step of a content loop appended to its string
Appended(before, after) == SubSeq(after, Len(before) + 1, Len(after))

\* the text starts with digits followed by "."
HasNumeral(text) ==
    \E d \in 2..Len(text) : text[d] = "." /\ \A k \in 1..(d - 1) : text[k] \in Digits

\* the line "{number}. {rest}" of such a text; rest ends at the first line
\* break of the text
NumberedLine(text) ==
    LET d == CHOOSE k \in 2..Len(text) : text[k] = "." /\ \A j \in 1..(k - 1) : text[j] \in Digits
        stop == SetMin({k \in (d + 1)..Len(text) : text[k] = "\n"} \cup {Len(text) + 1})
    IN  SubSeq(text, 1, d - 1) \o <<". ">> \o SubSeq(text, d + 1, stop - 1) \o <<"\n\n">>

\* the rule of C19 for the block a loop step rendered
OrderedItemRule(item, before, after) ==
    /\ Len(after) >= Len(before)
    /\ SubSeq(after, 1, Len(before)) = before
    /\ (item.type = <<"ol">> /\ HasNumeral(item.text)) =>
           Appended(before, after) = NumberedLine(item.text)
    /\ (item.type = <<"ol">> /\ ~HasNumeral(item.text)) =>
           Appended(before, after) = <<>> /\ data' = data
    /\ item.type # <<"ol">> => Appended(before, after) # <<>>

\* C19: in the Content section an ordered item whose text starts with
\* digits and "." gives exactly the one line "{number}. {rest}", an ordered
\* item without such a numeral gives nothing and stays in the Document,
\* every other block gives output, and the output of the blocks is
\* appended in the order of the blocks.
C19_OrderedItemsRendered ==
    [][/\ (mpc = "clean" /\ item_idx' = item_idx + 1) =>
              OrderedItemRule(data.content.clean[item_idx + 1],
                              md_content, md_content')
       /\ (mpc = "annotated" /\ item_idx' = item_idx + 1) =>
              OrderedItemRule(data.content.with_citations[item_idx + 1],
                              md_content_with_citations, md_content_with_citations')]_vars

\* C19 witness: a rendered page whose clean content has an ordered item
\* without numeral followed by an ordered item with one, and a later block
\* of another type.
C19_Witness ==
    /\ mpc = "returned"
    /\ \E i, j, k \in 1..Len(data.content.clean) :
           /\ i < j /\ j < k
           /\ data.content.clean[i].type = <<"ol">>
           /\ ~HasNumeral(data.content.clean[i].text)
           /\ data.content.clean[j].type = <<"ol">>
           /\ HasNumeral(data.content.clean[j].text)
           /\ data.content.clean[k].type # <<"ol">>
    /\ Has(md_content, ". ")

\* the number of occurrences of a piece in a string
Count(md, piece) == Cardinality({k \in 1..Len(md) : md[k] = piece})

\* the rule of C20 for the table block a loop step rendered
TableRule(item, before, after) ==
    LET out  == Appended(before, after)
        ends == {k \in 1..Len(out) : out[k] = " |\n"}
    IN  /\ (Has(out, "*Empty table*\n\n")
               <=> (Len(item.text.headers) = 0 /\ Len(item.text.rows) = 0))
        /\ Len(item.text.headers) > 0 =>
               /\ Cardinality(ends) = Len(item.text.rows) + 2
               /\ \A e \in ends :
                      LET start == SetMax({k \in ends : k < e} \cup {1}) + 1
                          line  == SubSeq(out, start, e)
                      IN  /\ line[1] = "| "
                          /\ Count(line, " | ") + 1 = Len(item.text.headers)
               /\ out[Len(out)] = "\n"

\* C20: a table block with headers is rendered as a header row, a
\* separator row and one row per data row, each with exactly len(headers)
\* cells; the empty-table marker is written if and only if the table has
\* neither headers nor rows.
C20_RenderedTableWidth ==
    [][/\ (mpc = "clean" /\ item_idx' = item_idx + 1
              /\ data.content.clean[item_idx + 1].type = <<"table">>) =>
              TableRule(data.content.clean[item_idx + 1], md_content, md_content')
       /\ (mpc = "annotated" /\ item_idx' = item_idx + 1
              /\ data.content.with_citations[item_idx + 1].type = <<"table">>) =>
              TableRule(data.content.with_citations[item_idx + 1],
                        md_content_with_citations, md_content_with_citations')]_vars

\* C20 witness: both loops have rendered a table whose data row is longer
\* than its headers, and a table without headers and rows.
C20_Witness ==
    /\ mpc = "returned"
    /\ \E i, j \in 1..Len(data.content.with_citations) :
           /\ data.content.with_citations[i].type = <<"table">>
           /\ Len(data.content.with_citations[i].text.headers) > 0
           /\ \E r \in 1..Len(data.content.with_citations[i].text.rows) :
                  Len(data.content.with_citations[i].text.rows[r])
                      > Len(data.content.with_citations[i].text.headers)
           /\ data.content.with_citations[j].type = <<"table">>
           /\ Len(data.content.with_citations[j].text.headers) = 0
           /\ Len(data.content.with_citations[j].text.rows) = 0
    /\ Has(md_content_with_citations, "*Empty table*\n\n")
    /\ Has(md_content_with_citations, "**Table:**\n\n")

(***************************************************************************)
(* The Citation Normalizer: citation numbers kept, marker-free fragments.  *)
(***************************************************************************)
\* the integers listed in the bracket groups of s
IntsInGroups(s) ==
    UNION { LET ints == GroupInts(GroupsOf(s)[g].citation)
            IN  {ints[a] : a \in 1..Len(ints)} : g \in 1..Len(GroupsOf(s)) }

\* the integers denoted by the range tokens "[a-b]" of s
IntsInRanges(s) ==
    UNION { RangeLow(s, i, e)..RangeHigh(s, i, e) :
                <<i, e>> \in {p \in (1..Len(s)) \X (1..Len(s)) :
                                 RangeTokenAt(s, p[1], p[2])} }

\* s holds an empty group "[]"
HasEmptyGroup(s) ==
    \E i \in 1..(Len(s) - 1) : SubSeq(s, i, i + 1) = <<"[", "]">>

\* C29: format_text_with_citations neither loses nor invents citation
\* numbers: when it returns on a marker-bearing fragment, the integers in
\* the bracket groups of the annotated output are exactly the integers
\* denoted by the bracket groups and range tokens of the extracted text,
\* and the output holds no empty group "[]", also for a range "[a-b]"
\* with a > b.
C29_CitationNumbersKept ==
    (pc = "done" /\ MarkerBearing) =>
        /\ IntsInGroups(annotated) = IntsInGroups(extracted) \cup IntsInRanges(extracted)
        /\ ~HasEmptyGroup(annotated)

\* the fragment has no citation-marker (sup) element
MarkerFree == \A i \in 1..Len(fragment) : ~fragment[i].sup

\* C30: on a fragment without any marker element format_text_with_citations
\* returns the trimmed visible text as it is: it never raises, none of
\* its passes runs (no duplicate collapse, no range expansion, no cluster
\* is built), and literal bracket groups, duplicate pairs and range tokens
\* of the text are in the returned text unchanged.
C30_MarkerFreeReturnedUnchanged ==
    MarkerFree =>
        /\ pc # "raised"
        /\ pc \notin {"collapse", "ranges", "scan", "replace"}
        /\ pc = "done" =>
               /\ clean_text = <<>> /\ citation_groups = <<>> /\ result_text = <<>>
               /\ annotated = extracted
               /\ Len(fragment) = 1 => annotated = strip(fragment[1].text)
               /\ NonWhitespace(annotated) = NonWhitespace(TextOutsideMarkers(fragment))
               /\ \A i \in 1..Len(fragment) :
                      \E j \in 0..Len(annotated) :
                          SubSeq(annotated, j + 1, j + Len(strip(fragment[i].text)))
                              = strip(fragment[i].text)

\* C30 witness: a marker-free fragment whose text holds a duplicate pair
\* "[2] [2]" and a range token with a missing bound has been returned.
C30_Witness ==
    /\ pc = "done"
    /\ MarkerFree
    /\ \E i \in 1..Len(annotated) : MatchDuplicate(annotated, i) # 0
    /\ \E i \in 1..(Len(annotated) - 1) : SubSeq(annotated, i, i + 1) = <<"-", "]">>

(***************************************************************************)
(* The batch loops and the page calls: properties.                         *)
(***************************************************************************)
\* the events of a log with one of the given names
EventsOf(log, ops) == SelectSeq(log, LAMBDA e : e.op \in ops)

\* the urls of the scrape_page calls made so far, in order
Attempted ==
    LET calls == EventsOf(batch_log, {"scrape_page"})
    IN  [k \in 1..Len(calls) |-> calls[k].url]

\* the urls of the calls that returned a Document, in order
Succeeded ==
    LET ended == EventsOf(batch_log, {"data"})
    IN  [k \in 1..Len(ended) |-> ended[k].url]

\* how the calls made so far ended, in order
Endings == EventsOf(batch_log, {"data", "None", "raised"})

BatchSafe ==
    /\ Attempted = SubSeq(urls, 1, Len(Attempted))
    /\ Len(Attempted) \in {url_idx, url_idx + 1}
    /\ Len(Endings) = url_idx
    /\ rpc = "end" =>
           /\ Attempted = urls
           /\ impl = "selenium" =>
                  /\ Len(results) = Len(Succeeded)
                  /\ \A k \in 1..Len(results) :
                         results[k] = [url |-> SelectSeq(Succeeded[k],
                                                         LAMBDA c : c # " ")]

\* C22: whatever pages fail, the batch loop attempts every URL exactly
\* once, in list order: the calls made are always a prefix of the list, a
\* call that fails is followed by the call for the next URL, the loop
\* ends, and then every URL has been attempted and the returned results
\* are the Documents of the successful pages, in order.
C22_BatchAttemptsEveryUrl ==
    /\ []BatchSafe
    /\ \A k \in 1..MaxUrls :
           (Len(Endings) = k /\ k < Len(urls)) ~> (Len(Attempted) = k + 1)
    /\ <>(rpc = "end")

\* C22 witness: the loop is over, the first page had failed and the pages
\* after it succeeded.
C22_Witness ==
    /\ rpc = "end"
    /\ Len(urls) = MaxUrls
    /\ Endings[1].op # "data"
    /\ \A k \in 2..Len(urls) : Endings[k].op = "data"

\* the k-th call that ended is followed in the log by a sleep of the loop
SleepAfter(k) ==
    LET p == SetMin({q \in 1..Len(batch_log) :
                        Len(EventsOf(SubSeq(batch_log, 1, q),
                                     {"data", "None", "raised"})) = k})
    IN  p < Len(batch_log) /\ batch_log[p + 1].op = "sleep"

\* the loop sleeps after each URL but the last
SleepsBetweenUrlsOnly ==
    rpc \in {"batch", "end"} =>
        \A k \in 1..Len(Endings) : SleepAfter(k) <=> (k < Len(urls))

\* C25: in main of baidu_scraper the extra sleep between URLs happens
\* after each URL except the last one and never after the last URL, for
\* every URL list, lists that hold the same URL more than once included.
C25_SleepBetweenUrlsOnly == (impl = "requests") => SleepsBetweenUrlsOnly

\* C26: in scrape_page of the Selenium class at most one driver created by
\* the call is live at any point (on a retry the previous driver has been
\* quit when the next one is set up), and once the call has returned, with
\* a Document or with None, none of its drivers is live.
C26_AtMostOneLiveDriver ==
    (impl = "selenium") =>
        /\ Cardinality(live) <= 1
        /\ live \subseteq 1..created
        /\ rpc = "setup" => live = {}
        /\ rpc \in {"get", "wait", "loaded"} => live = {driver}
        /\ (rpc \in {"returned", "batch", "end"}) => live = {}
        /\ rpc = "returned" => ret.kind \in {"data", "None"}

\* C26 witness: a call that created a driver at each of its three attempts
\* has returned None after its page was loaded.
C26_Witness ==
    /\ impl = "selenium"
    /\ rpc = "returned"
    /\ created = max_retries
    /\ ret.kind = "None"
    /\ \E k \in 1..Len(page_log) : page_log[k] = "output"

\* the positions of the given events in the log of the page call
PositionsOf(ops) == {p \in 1..Len(page_log) : page_log[p] \in ops}

\* an attempt of scrape_page failed: setup_driver raised, driver.get
\* raised, or both waits timed out
Failures == PositionsOf({"setup_failed", "get_failed", "wait_failed"})

\* no handler of a failed attempt is about to run
HandlersDone == rpc \notin {"wait_failed", "navigation_failed"}

RetrySafe ==
    /\ attempt \in 0..(max_retries - 1)
    /\ Cardinality(PositionsOf({"get"})) <= max_retries
    /\ Cardinality(Failures) <= max_retries
    /\ ret.kind # "raised"
    \* the loop is left at the first wait that succeeds
    /\ \A p \in PositionsOf({"wait_succeeded"}) :
           /\ \A q \in 1..(p - 1) : page_log[q] # "wait_succeeded"
           /\ \A q \in (p + 1)..Len(page_log) :
                  page_log[q] \in {"output", "quit"}
    \* one sleep after each failed attempt but the third, none after that
    /\ \A p \in Failures :
           (HandlersDone \/ p < SetMax(Failures)) =>
               IF Cardinality({q \in Failures : q <= p}) < max_retries
               THEN /\ p + 1 <= Len(page_log) /\ page_log[p + 1] = "sleep"
                    /\ p + 2 <= Len(page_log) => page_log[p + 2] # "sleep"
               ELSE p + 1 <= Len(page_log) => page_log[p + 1] # "sleep"
    /\ \A p \in PositionsOf({"sleep"}) : p - 1 \in Failures
    \* the third failure ends the call with None and without output
    /\ (rpc \in {"finally", "returned"} /\ Cardinality(Failures) = max_retries) =>
           /\ ret.kind = "None"
           /\ PositionsOf({"output", "wait_succeeded"}) = {}
    /\ (rpc = "returned" /\ Cardinality(Failures) < max_retries) =>
           PositionsOf({"wait_succeeded"}) # {}

\* C27: scrape_page of the Selenium class ends after at most 3 page loads:
\* it leaves the retry loop at the first attempt whose wait succeeds,
\* sleeps the retry delay exactly once after each failed attempt that is
\* not the last, and after a third failed attempt returns None, raising
\* nothing and writing no output.  (The sleeps of setup_driver's own retry
\* loop happen inside an attempt and are logged under another name.)
C27_ScrapePageRetriesBounded ==
    /\ [](impl = "selenium" => RetrySafe)
    /\ (impl = "selenium" /\ rpc = "attempt") ~> (rpc = "returned")

\* C27 witness: a call whose three attempts failed in the three possible
\* ways has returned.
C27_Witness ==
    /\ impl = "selenium"
    /\ rpc = "returned"
    /\ Cardinality(Failures) = max_retries
    /\ \A f \in {"setup_failed", "get_failed", "wait_failed"} :
           PositionsOf({f}) # {}

\* the part of the page call's log written by get_page: all of it up to
\* the response that get_page returned
GetPageLog ==
    IF \E p \in 1..Len(page_log) : page_log[p] = "response"
    THEN SubSeq(page_log, 1, SetMin({p \in 1..Len(page_log) :
                                        page_log[p] = "response"}))
    ELSE page_log

Requests == {p \in 1..Len(GetPageLog) : GetPageLog[p] = "request"}

FailedRequests == {p \in 1..Len(GetPageLog) : GetPageLog[p] = "request_failed"}

\* C28: get_page issues at most 3 requests per call: the body of the first
\* successful response is returned with no further request, each failed
\* attempt but the last is followed by exactly one sleep, and the third
\* failure is raised again with no sleep after it.
C28_GetPageRetriesBounded ==
    (impl = "requests") =>
        /\ Cardinality(Requests) <= max_retries
        /\ Cardinality(PositionsOf({"request"})) = Cardinality(Requests)
        /\ Cardinality(PositionsOf({"response"})) <= 1
        /\ rpc = "got" => /\ page_log = GetPageLog
                          /\ page_log[Len(page_log)] = "response"
                          /\ Cardinality(FailedRequests) = Cardinality(Requests) - 1
        /\ \A p \in FailedRequests :
               (rpc # "request_failed" \/ p < Len(GetPageLog)) =>
                   IF Cardinality({q \in FailedRequests : q <= p}) < max_retries
                   THEN /\ p + 1 <= Len(GetPageLog)
                        /\ GetPageLog[p + 1] = "random_sleep"
                        /\ p + 2 <= Len(GetPageLog) => GetPageLog[p + 2] = "request"
                   ELSE /\ p = Len(page_log)
                        /\ ret.kind = "raised"
        /\ \A p \in 1..Len(GetPageLog) :
               GetPageLog[p] = "random_sleep" => p - 1 \in FailedRequests
        /\ (rpc = "returned" /\ PositionsOf({"response"}) = {}) =>
               /\ ret.kind = "raised"
               /\ Cardinality(FailedRequests) = max_retries

\* C28 witness: get_page has returned the body of its third request.
C28_Witness ==
    /\ impl = "requests"
    /\ rpc = "got"
    /\ Cardinality(Requests) = max_retries


\* the numbers of the token "[n]" or "[a-b]" that starts at position i of
\* s, none when no token starts there
NumbersAt(s, i) ==
    LET d == RunEnd(s, i + 1, Digits)
        e == RunEnd(s, d + 1, Digits)
    IN  IF s[i] # "[" \/ d = i + 1 \/ d > Len(s) THEN {}
        ELSE IF s[d] = "]" THEN {int(SubSeq(s, i + 1, d - 1))}
        ELSE IF s[d] = "-" /\ e > d + 1 /\ e <= Len(s) /\ s[e] = "]"
        THEN {n \in 0..int(SubSeq(s, d + 1, e - 1)) : n >= int(SubSeq(s, i + 1, d - 1))}
        ELSE {}

TokenStarts(s) ==
    {i \in 1..Len(s) : \E d \in (i + 2)..Len(s) :
        /\ s[i] = "["
        /\ s[d] = "]"
        /\ \A j \in (i + 1)..(d - 1) : s[j] \in Digits \cup {"-"}
        /\ Cardinality({j \in (i + 1)..(d - 1) : s[j] = "-"}) <= 1
        /\ s[i + 1] # "-" /\ s[d - 1] # "-"}

\* every marker element of the page renders as one bracketed number or
\* number range, or as no token at all
OneTokenPerMarker ==
    \A k \in 1..Len(find_all_sups(document)) :
        Cardinality(TokenStarts(find_all_sups(document)[k])) <= 1

\* the numbers cited by the marker elements of the page
CitedNumbers ==
    UNION { UNION { NumbersAt(find_all_sups(document)[k], i) :
                        i \in 1..Len(find_all_sups(document)[k]) } :
                k \in 1..Len(find_all_sups(document)) }

Placeholder(number) ==
    [id |-> str(number), title |-> <<"Reference ">> \o str(number), url |-> <<>>]

Extracted ==
    mpc \notin {"extract", "extract_content", "extract_references", "raised", "idle"}

Anchors ==
    {"title", "short_description", "abstract", "info_box", "toc", "content",
     "references"}

\* the page without any anchor
BlankPage ==
    [title |-> Absent, short_description |-> Absent, abstract |-> Absent,
     info_box |-> Absent, toc |-> Absent,
     content |-> [present |-> FALSE, children |-> <<>>], references |-> Absent]

\* the page with one anchor of the document and no other
Only(anchor) == [BlankPage EXCEPT ![anchor] = document[anchor]]

\* the zero value of every field of a Document
ZeroValue ==
    [title |-> <<>>, short_description |-> <<>>,
     abstract |-> [clean |-> <<>>, with_citations |-> <<>>],
     info_box |-> [clean |-> <<>>, with_citations |-> <<>>],
     toc |-> <<>>,
     content |-> [clean |-> <<>>, with_citations |-> <<>>],
     references |-> <<>>]

\* the field of an anchor is the zero value when the anchor is absent and
\* what the anchor gives on its own when it is present
FieldOnItsOwn(anchor) ==
    data[anchor] = IF document[anchor].present
                   THEN extract_data(Only(anchor), impl, hashSeed).data[anchor]
                   ELSE ZeroValue[anchor]

\* the extraction raises only when a present anchor raises on its own
RaisedByPresentAnchor ==
    mpc = "raised" =>
        \E anchor \in Anchors :
            /\ document[anchor].present
            /\ extract_data(Only(anchor), impl, hashSeed).raised

Occurrences(text, sub) ==
    {i \in 1..(Len(text) - Len(sub) + 1) : SubSeq(text, i, i + Len(sub) - 1) = sub}

\* the places of a Markdown string at which a reference line with the
\* number 1 starts: "1" at the start of a line, followed by ". "
ReferenceLines1(md) ==
    {i \in 2..(Len(md) - 1) :
        /\ md[i] = "1"
        /\ md[i - 1] \in {"## References\n\n", "\n"}
        /\ md[i + 1] \in {". [", ". "}}

\* the minimal page: the title "Example Corp", one paragraph "abc" with
\* the marker "[1]" twice, a reference list with one entry, nothing else
ExamplePage ==
    /\ document.title = Node(Text(ExampleTitle))
    /\ document.content.present
    /\ document.content.children \in {<<ExampleParagraph>>, <<ExampleParagraphSpaced>>}
    /\ Len(reference_items(document, impl)) = 1
    /\ ~document.short_description.present
    /\ ~document.abstract.present
    /\ ~document.info_box.present
    /\ ~document.toc.present

\* C24: the minimal page is extracted without an error, and once both
\* Markdown strings are returned the clean one starts with the title,
\* holds the paragraph "abc" and no bracket of the page's text, and the
\* annotated one holds the paragraph as "abc[1]", no other bracket of
\* the page's text, and exactly one reference line that starts with "1."
C24_EndToEndExample ==
    ExamplePage =>
        /\ mpc # "raised"
        /\ mpc = "returned" =>
            /\ 1 \in Occurrences(md_content, <<"# ">> \o ExampleTitle \o <<"\n\n">>)
            /\ Occurrences(md_content, <<"## Content\n\n", "a", "b", "c", "\n\n">>) # {}
            /\ \A i \in 1..Len(md_content) : md_content[i] \notin {"[", "]"}
            /\ Cardinality(Occurrences(md_content_with_citations,
                   <<"## Content\n\n", "a", "b", "c", "[", "1", "]", "\n\n">>)) = 1
            /\ Cardinality({i \in 1..Len(md_content_with_citations) :
                                md_content_with_citations[i] = "["}) = 1
            /\ Cardinality({i \in 1..Len(md_content_with_citations) :
                                md_content_with_citations[i] = "]"}) = 1
            /\ Cardinality(ReferenceLines1(md_content_with_citations)) = 1

\* the minimal page with two adjacent markers, rendered by the Selenium
\* class
C24_Witness ==
    /\ ExamplePage
    /\ impl = "selenium"
    /\ document.content.children = <<ExampleParagraph>>
    /\ document.references.li[1].link.present
    /\ mpc = "returned"
    /\ Len(md_content_with_citations) > Len(md_content)
====
